---- MODULE Spec2Model ----
(***************************************************************************)
(* A model of the Scoutly AI service: the candidate ranking engine         *)
(* (agents/profile_ranker.py), the job-description structuring pipeline    *)
(* (agents/jd_parser.py, agents/jd_processor.py) and the query synthesizer *)
(* (agents/prompt_generator.py).                                           *)
(*                                                                         *)
(* Python strings are TLA+ strings over ASCII; the string methods the code *)
(* uses (lower, strip, split, join, title, in, startswith, replace) are    *)
(* operators that compute what the methods compute.  An optional value     *)
(* (None or an absent dictionary key) is the empty sequence <<>>, a        *)
(* present value v is <<v>>.                                               *)
(***************************************************************************)
EXTENDS Integers, Sequences, FiniteSets, TLC

(***************************************************************************)
(* Python string methods                                                   *)
(***************************************************************************)

None == <<>>

Some(v) == <<v>>

IsNone(o) == o = <<>>

Upper == "ABCDEFGHIJKLMNOPQRSTUVWXYZ"

Lowers == "abcdefghijklmnopqrstuvwxyz"

\* c in s for a one-character string c.
HasChar(s, c) == \E i \in 1..Len(s) : SubSeq(s, i, i) = c

IndexOfChar(s, c) == CHOOSE i \in 1..Len(s) : SubSeq(s, i, i) = c

DigitChars == {"0", "1", "2", "3", "4", "5", "6", "7", "8", "9"}

\* The ASCII whitespace characters.
SpaceChars == {" ", "\t", "\n", "\r", "\f"}

\* str.isdigit, for one ASCII character
IsDigit(c) == c \in DigitChars

\* str.isspace, for one ASCII character
IsSpace(c) == c \in SpaceChars

UpperSet == {SubSeq(Upper, i, i) : i \in 1..Len(Upper)}

LowerSet == {SubSeq(Lowers, i, i) : i \in 1..Len(Lowers)}

ToLower == [c \in UpperSet |-> LET i == IndexOfChar(Upper, c) IN SubSeq(Lowers, i, i)]

ToUpper == [c \in LowerSet |-> LET i == IndexOfChar(Lowers, c) IN SubSeq(Upper, i, i)]

LowerChar(c) == IF c \in UpperSet THEN ToLower[c] ELSE c

UpperChar(c) == IF c \in LowerSet THEN ToUpper[c] ELSE c

RECURSIVE Lower(_)
\* str.lower
Lower(s) == IF s = "" THEN ""
            ELSE IF Len(s) = 1 THEN LowerChar(s)
            ELSE LET h == Len(s) \div 2
                 IN Lower(SubSeq(s, 1, h)) \o Lower(SubSeq(s, h + 1, Len(s)))

RECURSIVE TitleFrom(_, _)
TitleFrom(s, prevCased) ==
    IF s = "" THEN ""
    ELSE LET c == SubSeq(s, 1, 1)
         IN (IF prevCased THEN LowerChar(c) ELSE UpperChar(c))
            \o TitleFrom(SubSeq(s, 2, Len(s)), c \in UpperSet \cup LowerSet)

\* str.title: a letter is upper-cased after a non-letter, lower-cased after a letter.
Title(s) == TitleFrom(s, FALSE)

\* s[m-1:n] of Python, for 1 <= m: the characters of index m to n that exist.
Slice(s, m, n) == SubSeq(s, m, IF n > Len(s) THEN Len(s) ELSE n)

\* k in s
Contains(s, k) ==
    \E i \in 1..(Len(s) - Len(k) + 1) : SubSeq(s, i, i + Len(k) - 1) = k

\* s.startswith(p)
StartsWith(s, p) == Len(p) <= Len(s) /\ SubSeq(s, 1, Len(p)) = p

RECURSIVE LStrip(_)
LStrip(s) == IF s # "" /\ IsSpace(SubSeq(s, 1, 1))
             THEN LStrip(SubSeq(s, 2, Len(s)))
             ELSE s

RECURSIVE RStrip(_)
RStrip(s) == IF s # "" /\ IsSpace(SubSeq(s, Len(s), Len(s)))
             THEN RStrip(SubSeq(s, 1, Len(s) - 1))
             ELSE s

\* str.strip
Strip(s) == RStrip(LStrip(s))

\* s.split(c, 1): at most one split, at the first c.
SplitOnce(s, c) ==
    IF HasChar(s, c)
    THEN LET i == CHOOSE j \in 1..Len(s) :
                      /\ SubSeq(s, j, j) = c
                      /\ \A k \in 1..(j - 1) : SubSeq(s, k, k) # c
         IN <<SubSeq(s, 1, i - 1), SubSeq(s, i + 1, Len(s))>>
    ELSE <<s>>

RECURSIVE Split(_, _)
\* s.split(c) for a one-character separator: every piece, the empty ones too.
Split(s, c) ==
    IF HasChar(s, c)
    THEN LET parts == SplitOnce(s, c) IN <<parts[1]>> \o Split(parts[2], c)
    ELSE <<s>>

RECURSIVE WordsFrom(_, _)
\* The maximal runs of non-whitespace characters of s that start at index i or later.
WordsFrom(s, i) ==
    IF \A j \in i..Len(s) : IsSpace(SubSeq(s, j, j)) THEN <<>>
    ELSE LET b == CHOOSE j \in i..Len(s) :
                      /\ ~IsSpace(SubSeq(s, j, j))
                      /\ \A k \in i..(j - 1) : IsSpace(SubSeq(s, k, k))
             e == CHOOSE j \in b..Len(s) :
                      /\ j = Len(s) \/ IsSpace(SubSeq(s, j + 1, j + 1))
                      /\ \A k \in b..j : ~IsSpace(SubSeq(s, k, k))
         IN <<SubSeq(s, b, e)>> \o WordsFrom(s, e + 1)

\* s.split()
SplitWords(s) == WordsFrom(s, 1)

RECURSIVE Join(_, _)
\* sep.join(parts)
Join(parts, sep) ==
    IF parts = <<>> THEN ""
    ELSE IF Len(parts) = 1 THEN parts[1]
    ELSE parts[1] \o sep \o Join(Tail(parts), sep)

\* parts[:n]
Take(parts, n) == SubSeq(parts, 1, IF n < Len(parts) THEN n ELSE Len(parts))

RECURSIVE Replace(_, _, _)
\* s.replace(old, new) for a non-empty old
Replace(s, old, new) ==
    IF Len(s) < Len(old) THEN s
    ELSE IF SubSeq(s, 1, Len(old)) = old
         THEN new \o Replace(SubSeq(s, Len(old) + 1, Len(s)), old, new)
         ELSE SubSeq(s, 1, 1) \o Replace(SubSeq(s, 2, Len(s)), old, new)

RECURSIVE SelectSeqOf(_, _)
\* The subsequence of s whose elements are in the set keep.
SelectSeqOf(s, keep) ==
    IF s = <<>> THEN <<>>
    ELSE (IF Head(s) \in keep THEN <<Head(s)>> ELSE <<>>) \o SelectSeqOf(Tail(s), keep)

Range(s) == {s[i] : i \in 1..Len(s)}

(***************************************************************************)
(* Rule-based extractor: JDParser._fallback_structure_jd                   *)
(*                                                                         *)
(* An extraction step that can raise returns [raised, value]; a list index *)
(* out of range is the only way the function's own code can raise.         *)
(***************************************************************************)

title_keywords ==
    <<"engineer", "developer", "manager", "analyst", "specialist", "lead",
      "senior", "junior", "intern", "associate", "director", "coordinator",
      "consultant", "architect", "designer", "administrator", "officer">>

title_skip == <<"job description", "overview", "about", "requirements">>

title_prefixes == <<"job title:", "position:", "role:", "title:">>

\* any(k in s for k in keys)
ContainsAny(s, keys) == \E i \in 1..Len(keys) : Contains(s, keys[i])

RECURSIVE StripPrefixes(_, _)
\* for prefix in prefixes: if job_title.lower().startswith(prefix): cut it, strip
StripPrefixes(t, prefixes) ==
    IF prefixes = <<>> THEN t
    ELSE StripPrefixes(
            IF StartsWith(Lower(t), Head(prefixes))
            THEN Strip(SubSeq(t, Len(Head(prefixes)) + 1, Len(t)))
            ELSE t,
            Tail(prefixes))

\* Number of lines the title scan reads.
TitleScanLines == 10

\* The heuristic title is taken among the lines of index below this.
TitleHeuristicLines == 3

TitleMaxWords == 6

TitleMinChars == 5

RECURSIVE TitleScan(_, _)
\* The title loop from the line of (0-based) index i on.
TitleScan(lines, i) ==
    IF i >= Len(lines) \/ i >= TitleScanLines THEN None
    ELSE LET line_clean == Strip(lines[i + 1])
         IN IF line_clean = "" THEN TitleScan(lines, i + 1)
            ELSE IF ContainsAny(Lower(line_clean), title_skip) THEN TitleScan(lines, i + 1)
            ELSE IF ContainsAny(Lower(line_clean), title_keywords)
                 THEN Some(StripPrefixes(line_clean, title_prefixes))
            ELSE IF /\ i < TitleHeuristicLines
                    /\ Len(SplitWords(line_clean)) <= TitleMaxWords
                    /\ Len(line_clean) > TitleMinChars
                 THEN Some(line_clean)
            ELSE TitleScan(lines, i + 1)

ExtractTitle(lines) == TitleScan(lines, 0)

company_labels == <<"company:", "organization:", "employer:">>

company_suffixes == <<"inc.", "ltd.", "corp.", "llc", "pvt", "technologies", "solutions">>

CompanyScanLines == 15

CompanyMaxWords == 8

\* parts[1] of Python: the second element, an IndexError when there is none.
SecondPart(parts) ==
    IF Len(parts) >= 2 THEN [raised |-> FALSE, value |-> parts[2]]
    ELSE [raised |-> TRUE, value |-> ""]

RECURSIVE CompanyScan(_, _, _)
\* The company loop from the line of index i on; company is the value so far.
CompanyScan(lines, i, company) ==
    IF i >= Len(lines) \/ i >= CompanyScanLines THEN [raised |-> FALSE, value |-> company]
    ELSE LET line_clean == Strip(lines[i + 1])
             line_lower == Lower(line_clean)
             labelled == ContainsAny(line_lower, company_labels)
             after == SecondPart(SplitOnce(line_clean, ":"))
             company1 == IF labelled THEN Some(Strip(after.value)) ELSE company
         IN IF line_clean = "" THEN CompanyScan(lines, i + 1, company)
            ELSE IF labelled /\ after.raised THEN [raised |-> TRUE, value |-> company]
            ELSE IF /\ ContainsAny(line_lower, company_suffixes)
                    /\ Len(SplitWords(line_clean)) <= CompanyMaxWords
                 THEN [raised |-> FALSE, value |-> Some(line_clean)]
            ELSE CompanyScan(lines, i + 1, company1)

ExtractCompany(lines) == CompanyScan(lines, 0, None)

location_keywords ==
    <<"bangalore", "mumbai", "delhi", "pune", "hyderabad", "chennai", "kolkata",
      "ahmedabad", "surat", "jaipur", "lucknow", "kanpur", "nagpur", "indore",
      "gurgaon", "gurugram", "noida", "faridabad", "ghaziabad",
      "new york", "san francisco", "london", "singapore", "dubai", "toronto",
      "sydney", "berlin", "paris", "tokyo", "remote", "work from home", "wfh",
      "india", "usa", "uk", "canada", "australia", "germany", "france">>

location_indicators == <<"location:", "based in:", "office:", "city:", "address:">>

LocationWholeLineWords == 10

LocationWindowBefore == 2

LocationWindowAfter == 3

\* not x, for an optional string: None or the empty string
Falsy(o) == IsNone(o) \/ o = Some("")

\* The first gazetteer keyword, in list order, that the line contains (0: none).
FirstKeyword(line_lower) ==
    LET hits == {k \in 1..Len(location_keywords) : Contains(line_lower, location_keywords[k])}
    IN IF hits = {} THEN 0 ELSE CHOOSE k \in hits : \A m \in hits : k <= m

\* The window of words around the first word that contains the keyword; the
\* location stays as it was when no single word contains it.
LocationWindow(line_clean, keyword, location) ==
    LET words == SplitWords(line_clean)
        hits == {i \in 1..Len(words) : Contains(Lower(words[i]), keyword)}
    IN IF hits = {} THEN location
       ELSE LET i == (CHOOSE j \in hits : \A m \in hits : j <= m) - 1
                start == IF i - LocationWindowBefore > 0 THEN i - LocationWindowBefore ELSE 0
                end == IF i + LocationWindowAfter < Len(words)
                       THEN i + LocationWindowAfter ELSE Len(words)
            IN Some(Join(SubSeq(words, start + 1, end), " "))

\* The keyword branch for one line, taken when the location is still falsy.
LocationByKeyword(line_clean, location) ==
    LET k == FirstKeyword(Lower(line_clean))
    IN IF k = 0 THEN location
       ELSE IF Len(SplitWords(line_clean)) <= LocationWholeLineWords
            THEN Some(line_clean)
            ELSE LocationWindow(line_clean, location_keywords[k], location)

RECURSIVE LocationScan(_, _, _)
\* The location loop from the line of index i on.
LocationScan(lines, i, location) ==
    IF i >= Len(lines) THEN [raised |-> FALSE, value |-> location]
    ELSE LET line_clean == Strip(lines[i + 1])
             labelled == ContainsAny(Lower(line_clean), location_indicators)
             after == SecondPart(SplitOnce(line_clean, ":"))
             location1 == IF labelled THEN Some(Strip(after.value)) ELSE location
             location2 == IF Falsy(location1)
                          THEN LocationByKeyword(line_clean, location1)
                          ELSE location1
         IN IF labelled /\ after.raised THEN [raised |-> TRUE, value |-> location]
            ELSE IF ~Falsy(location2) THEN [raised |-> FALSE, value |-> location2]
            ELSE LocationScan(lines, i + 1, location2)

ExtractLocation(lines) == LocationScan(lines, 0, None)

(***************************************************************************)
(* re.search for the experience patterns.  A position is the index of the  *)
(* next character to read; a sub-pattern maps a set of positions to the    *)
(* set of positions its matches can end at.  re.search takes the leftmost  *)
(* start; the patterns' first group then has one possible end (the digit   *)
(* runs it ends with must be read whole for what follows to match), and    *)
(* the first alternative of the group wins over the second.                *)
(* The en dash of the patterns is outside the ASCII alphabet.              *)
(***************************************************************************)

CharAt(t, p) == IF p >= 1 /\ p <= Len(t) THEN SubSeq(t, p, p) ELSE ""

\* A literal.
Lit(t, P, lit) == {p + Len(lit) : p \in {q \in P : Slice(t, q, q + Len(lit) - 1) = lit}}

\* One of several literals.
AnyLit(t, P, lits) == UNION {Lit(t, P, l) : l \in lits}

\* The position after the longest run of characters of the class that starts at p.
RunEnd(t, p, class) ==
    CHOOSE q \in p..(Len(t) + 1) :
        /\ q = Len(t) + 1 \/ SubSeq(t, q, q) \notin class
        /\ \A k \in p..(q - 1) : SubSeq(t, k, k) \in class

\* Positions reachable from p by reading characters of the class.
RunFrom(t, p, class) == p..RunEnd(t, p, class)

\* \s*
WsStar(t, P) == UNION {RunFrom(t, p, SpaceChars) : p \in P}

\* \d+
DigitPlus(t, P) == UNION {RunFrom(t, p, DigitChars) \ {p} : p \in P}

\* [\+\-\s]
PlusMinusSpace == {"+", "-"} \cup SpaceChars

\* [:\s]
SpaceOrColon == {":"} \cup SpaceChars

\* (?:years?|yrs?)
Years(t, P) == AnyLit(t, P, {"years", "year", "yrs", "yr"})

\* (?:experience|exp)
Exp(t, P) == AnyLit(t, P, {"experience", "exp"})

\* \d+[\+\-\s]*(?:to|\-)\s*\d+, the first alternative of the group
RangeAlt(t, P) ==
    DigitPlus(t, WsStar(t, AnyLit(t, UNION {RunFrom(t, p, PlusMinusSpace)
                                            : p \in DigitPlus(t, P)}, {"to", "-"})))

\* \d+\+?, the second alternative of the group
SingleAlt(t, P) == LET d == DigitPlus(t, P) IN d \cup Lit(t, d, "+")

\* An alternative of the group, by name.
Alt(a, t, P) ==
    CASE a = "range" -> RangeAlt(t, P)
      [] a = "single" -> SingleAlt(t, P)
      [] a = "digits" -> DigitPlus(t, P)

\* What follows the group in pattern n (patterns 2, 3 and 4 end the same way).
Rest(n, t, P) ==
    CASE n = 1 -> LET y == WsStar(t, Years(t, WsStar(t, P)))
                  IN Exp(t, y \cup WsStar(t, Lit(t, y, "of")))
      [] n \in {2, 3, 4} -> Years(t, WsStar(t, P))
      [] n = 5 -> AnyLit(t, WsStar(t, Years(t, WsStar(t, P))),
                         {"minimum", "min", "experience", "exp"})

\* What precedes the group in pattern n: the positions the group can start at
\* for a match that starts at position i.
Lead(n, t, i) ==
    CASE n \in {1, 3, 5} -> {i}
      [] n = 2 -> UNION {RunFrom(t, p, SpaceOrColon) : p \in Exp(t, {i})}
      [] n = 4 -> WsStar(t, AnyLit(t, {i}, {"minimum", "min", "at least"}))

\* The group of patterns 4 and 5 is (\d+), that of the others (\d+...|\d+\+?).
DigitsOnly(n) == n \in {4, 5}

\* The group of pattern n, started in G, read as alternative a and followed by
\* the rest of the pattern: the set of <<start, end>> of the group.
GroupSpan(n, t, G, a) ==
    UNION {{<<g, e>> : e \in {x \in Alt(a, t, {g}) : Rest(n, t, {x}) # {}}} : g \in G}

\* The first non-empty set of a sequence of sets, the empty set when there is none.
FirstNonEmpty(sets) ==
    IF \A k \in 1..Len(sets) : sets[k] = {} THEN {}
    ELSE sets[CHOOSE k \in 1..Len(sets) : sets[k] # {} /\ \A m \in 1..(k - 1) : sets[m] = {}]

\* The alternatives of the group of pattern n, in the order the pattern lists them.
GroupAlternatives(n) == IF DigitsOnly(n) THEN <<"digits">> ELSE <<"range", "single">>

\* The group of a match of pattern n starting at i: the first alternative when
\* it matches.
GroupAt(n, t, i) ==
    FirstNonEmpty([k \in 1..Len(GroupAlternatives(n)) |->
                      GroupSpan(n, t, Lead(n, t, i), GroupAlternatives(n)[k])])

\* The group of the leftmost match, at being the groups of the matches that start
\* at each position of t.
LeftmostGroup(t, at) ==
    IF \A i \in 1..Len(t) : at[i] = {} THEN None
    ELSE LET i == CHOOSE j \in 1..Len(t) : at[j] # {} /\ \A k \in 1..(j - 1) : at[k] = {}
             span == CHOOSE x \in at[i] : \A y \in at[i] : x[2] >= y[2]
         IN Some(SubSeq(t, span[1], span[2] - 1))

\* re.search(pattern n, t).group(1): None when the pattern matches nowhere.
ExperiencePattern(t, n) == LeftmostGroup(t, [i \in 1..Len(t) |-> GroupAt(n, t, i)])

NumExperiencePatterns == 5

\* The first match of a list of search results, stripped: match.group(1).strip()
FirstMatch(groups) ==
    IF \A n \in 1..Len(groups) : IsNone(groups[n]) THEN None
    ELSE Some(Strip(groups[CHOOSE n \in 1..Len(groups) :
                              /\ ~IsNone(groups[n])
                              /\ \A m \in 1..(n - 1) : IsNone(groups[m])][1]))

\* The group of the first pattern, in list order, that matches.
FirstPattern(t) == FirstMatch([n \in 1..NumExperiencePatterns |-> ExperiencePattern(t, n)])

exp_text_patterns ==
    <<"entry level", "fresher", "fresh graduate", "no experience",
      "junior level", "mid level", "senior level", "experienced">>

\* The first element of keys, in list order, that s contains, as a list of at most one.
FirstContained(s, keys) ==
    LET hits == {i \in 1..Len(keys) : Contains(s, keys[i])}
    IN IF hits = {} THEN None ELSE Some(keys[CHOOSE i \in hits : \A j \in hits : i <= j])

\* if not experience: the first phrase the text contains, in title case
PhraseUnlessNumeric(numeric, phrase) ==
    IF ~Falsy(numeric) THEN numeric
    ELSE IF IsNone(phrase) THEN numeric
    ELSE Some(Title(phrase[1]))

ExtractExperience(text_lower) ==
    PhraseUnlessNumeric(FirstPattern(text_lower),
                        FirstContained(text_lower, exp_text_patterns))

skill_keywords ==
    <<"python", "java", "javascript", "typescript", "c++", "c#", "php", "ruby", "go",
      "rust", "swift", "kotlin",
      "react", "angular", "vue", "node", "express", "django", "flask", "fastapi",
      "spring", "laravel",
      "sql", "mysql", "postgresql", "mongodb", "redis", "elasticsearch", "oracle", "sqlite",
      "aws", "azure", "gcp", "docker", "kubernetes", "jenkins", "git", "github", "gitlab",
      "ci/cd",
      "pandas", "numpy", "tensorflow", "pytorch", "scikit-learn", "tableau", "power bi",
      "excel",
      "api", "rest", "graphql", "microservices", "agile", "scrum", "jira", "confluence",
      "project management", "business analysis", "requirements gathering",
      "stakeholder management">>

MaxSkills == 15

MaxSectionItems == 10

RECURSIVE Dedupe(_, _)
\* list(dict.fromkeys(s)): the first occurrence of each element, in order.
Dedupe(s, seen) ==
    IF s = <<>> THEN <<>>
    ELSE IF Head(s) \in seen THEN Dedupe(Tail(s), seen)
    ELSE <<Head(s)>> \o Dedupe(Tail(s), seen \cup {Head(s)})

RECURSIVE SkillsScan(_, _)
\* The skills loop from the keyword of index k on.
SkillsScan(text_lower, k) ==
    IF k > Len(skill_keywords) THEN <<>>
    ELSE (IF Contains(text_lower, Lower(skill_keywords[k]))
          THEN <<Title(skill_keywords[k])>> ELSE <<>>)
         \o SkillsScan(text_lower, k + 1)

ExtractSkills(text_lower) == Take(Dedupe(SkillsScan(text_lower, 1), {}), MaxSkills)

requirements_keywords ==
    <<"requirement", "qualification", "must have", "should have", "skills", "competenc",
      "prerequisite">>

responsibilities_keywords ==
    <<"responsibility", "duties", "role", "will be", "tasks", "job duties",
      "what you will do">>

SectionHeaderMaxWords == 8

SectionMinLineChars == 3

BulletMinChars == 10

\* A header detection that looks for the responsibilities keywords first.
HeaderSectionResponsibilitiesFirst(line, current) ==
    IF Len(SplitWords(line)) > SectionHeaderMaxWords THEN current
    ELSE IF ContainsAny(Lower(line), responsibilities_keywords) THEN "responsibilities"
    ELSE IF ContainsAny(Lower(line), requirements_keywords) THEN "requirements"
    ELSE current

\* The section a line switches to: the first section, in dictionary order, one of
\* whose keywords the line contains; current when the line is no header.
HeaderSection(line, current) ==
    IF Len(SplitWords(line)) > SectionHeaderMaxWords THEN current
    ELSE IF ContainsAny(Lower(line), requirements_keywords) THEN "requirements"
    ELSE IF ContainsAny(Lower(line), responsibilities_keywords) THEN "responsibilities"
    ELSE current

\* line.startswith(('-', '*')) over ASCII, or a digit followed by ". " or ") "
IsBullet(line) ==
    \/ SubSeq(line, 1, 1) \in {"-", "*"}
    \/ IsDigit(SubSeq(line, 1, 1)) /\ Slice(line, 2, 3) \in {". ", ") "}

\* line[1:].strip() after a bullet character, line[2:].strip() after a digit
BulletText(line) ==
    IF SubSeq(line, 1, 1) \in {"-", "*"}
    THEN Strip(SubSeq(line, 2, Len(line)))
    ELSE Strip(SubSeq(line, 3, Len(line)))

RECURSIVE SectionScan(_, _, _, _, _)
\* The section loop from the line of index i on.
SectionScan(lines, i, current, requirements, responsibilities) ==
    IF i >= Len(lines)
    THEN [requirements |-> requirements, responsibilities |-> responsibilities,
          current_section |-> current]
    ELSE LET line == Strip(lines[i + 1])
             section == HeaderSection(line, current)
             item == BulletText(line)
             keep == IsBullet(line) /\ Len(item) > BulletMinChars
         IN IF line = "" \/ Len(line) < SectionMinLineChars
            THEN SectionScan(lines, i + 1, current, requirements, responsibilities)
            ELSE SectionScan(lines, i + 1, section,
                    IF keep /\ section = "requirements"
                    THEN Append(requirements, item) ELSE requirements,
                    IF keep /\ section = "responsibilities"
                    THEN Append(responsibilities, item) ELSE responsibilities)

\* A scan that starts inside the requirements section.
ExtractSectionsFromRequirements(lines) == SectionScan(lines, 0, "requirements", <<>>, <<>>)

\* current_section = None before the loop
ExtractSections(lines) == SectionScan(lines, 0, "none", <<>>, <<>>)

\* if company: company.replace('Company:', '').replace('Organization:', '').strip()
CleanCompany(company) ==
    IF Falsy(company) THEN company
    ELSE Some(Strip(Replace(Replace(company[1], "Company:", ""), "Organization:", "")))

\* if location: location.replace('Location:', '').replace('Based in:', '').strip()
CleanLocation(location) ==
    IF Falsy(location) THEN location
    ELSE Some(Strip(Replace(Replace(location[1], "Location:", ""), "Based in:", "")))

\* A record that does not echo the raw text.
FallbackDescriptionStripped(raw_text) == Some(Strip(raw_text))

\* "job_description": raw_text
FallbackDescription(raw_text) == Some(raw_text)

\* A record that does not say the extractor made it.
FallbackUsedUnset == FALSE

\* "fallback_used": True
FallbackUsed == TRUE

\* The record _fallback_structure_jd returns for what its steps extracted, and
\* whether a step raised instead.
FallbackResult(raw_text, job_title, company, location, experience, skills, sections) ==
    [raised |-> company.raised \/ location.raised,
     record |->
        [job_title |-> job_title,
         company |-> CleanCompany(company.value),
         location |-> CleanLocation(location.value),
         experience_required |-> experience,
         skills_required |-> Some(skills),
         job_type |-> None,
         salary_range |-> None,
         job_description |-> FallbackDescription(raw_text),
         requirements |-> Some(Take(sections.requirements, MaxSectionItems)),
         responsibilities |-> Some(Take(sections.responsibilities, MaxSectionItems)),
         fallback_used |-> FallbackUsed]]

\* _fallback_structure_jd(raw_text): text_lower = raw_text.lower(),
\* lines = raw_text.split('\n'), then the extraction steps in order.
FallbackStructureJD(raw_text) ==
    FallbackResult(raw_text,
                   ExtractTitle(Split(raw_text, "\n")),
                   ExtractCompany(Split(raw_text, "\n")),
                   ExtractLocation(Split(raw_text, "\n")),
                   ExtractExperience(Lower(raw_text)),
                   ExtractSkills(Lower(raw_text)),
                   ExtractSections(Split(raw_text, "\n")))

(***************************************************************************)
(* Query synthesizer: PromptGenerator                                      *)
(*                                                                         *)
(* A job record is a record of optional fields; a list field that is null  *)
(* is None, a list field that is a list is Some(the list).  fallback_used  *)
(* is read with .get('fallback_used', False): an absent key is FALSE.      *)
(***************************************************************************)

\* x or default, for an optional string
OrElse(o, default) == IF Falsy(o) THEN default ELSE o[1]

fallback_tech_keywords ==
    <<"python", "java", "javascript", "react", "node", "go", "rust", "c++">>

IsTechnicalSkill(skill) == ContainsAny(Lower(skill), fallback_tech_keywords)

\* [skill for skill in skills if any(tech in skill.lower() for tech in [...])]
TechnicalSkills(skills) ==
    SelectSeqOf(skills, {skill \in Range(skills) : IsTechnicalSkill(skill)})

\* structured_jd.get('skills_required', []) where it is only tested and sliced: a
\* null list is falsy, like the empty list
SkillsOrEmpty(jd) == IF IsNone(jd.skills_required) THEN <<>> ELSE jd.skills_required[1]

LinkedinDefaultTitle == "Software Engineer"

GithubDefaultTitle == "Developer"

DefaultLocation == "India"

LinkedinTopSkills == 3

GithubTopSkills == 2

\* _generate_fallback_linkedin_prompt
FallbackLinkedinPrompt(jd) ==
    Join(<<OrElse(jd.job_title, LinkedinDefaultTitle),
           "in " \o OrElse(jd.location, DefaultLocation)>>
         \o Take(SkillsOrEmpty(jd), LinkedinTopSkills), " ")

\* _generate_fallback_github_prompt iterates over skills_required: a null list
\* raises TypeError.
FallbackGithubRaises(jd) == IsNone(jd.skills_required)

\* A template that takes the first skills whatever they are.
GithubSkillPartsUnfiltered(technical_skills, skills) == Take(skills, GithubTopSkills)

\* technical_skills[:2] if technical_skills, else skills[:2]
GithubSkillParts(technical_skills, skills) ==
    IF technical_skills # <<>> THEN Take(technical_skills, GithubTopSkills)
    ELSE Take(skills, GithubTopSkills)

\* _generate_fallback_github_prompt, for a record whose skills_required is a list
FallbackGithubPrompt(jd) ==
    Join(<<Replace(OrElse(jd.job_title, GithubDefaultTitle), "Engineer", "Developer"),
           "in " \o OrElse(jd.location, DefaultLocation)>>
         \o GithubSkillParts(TechnicalSkills(jd.skills_required[1]),
                             jd.skills_required[1]), " ")

\* generate_linkedin_prompt builds its context with ', '.join over skills_required,
\* requirements and responsibilities before it calls the model: a null list raises
\* TypeError there, outside the method's own try.
ContextRaises(jd) ==
    IsNone(jd.skills_required) \/ IsNone(jd.requirements) \/ IsNone(jd.responsibilities)

\* A synthesizer that asks the model whatever produced the record.
TemplatesOnlyNever(jd) == FALSE

\* if structured_jd.get('fallback_used', False): the templates, without any call
TemplatesOnly(jd) == jd.fallback_used

MaxPromptChars == 200

MaxPromptWordsKept == 25

\* One prompt through validate_and_optimize_prompts: truncation, then the title.
\* if len(p) > 200: " ".join(p.split()[:25])
Truncated(prompt) ==
    IF Len(prompt) > MaxPromptChars
    THEN Join(Take(SplitWords(prompt), MaxPromptWordsKept), " ")
    ELSE prompt

\* A pass that never adds the title.
WithoutTitle(optimized, job_title) == optimized

\* if job_title and job_title.lower() not in p.lower(): f"{job_title} {p}"
WithTitle(optimized, job_title) ==
    IF ~Falsy(job_title) /\ ~Contains(Lower(optimized), Lower(job_title[1]))
    THEN job_title[1] \o " " \o optimized
    ELSE optimized

\* One prompt through validate_and_optimize_prompts: truncation, then the title.
ValidateOne(prompt, job_title) == WithTitle(Truncated(prompt), job_title)

\* validate_and_optimize_prompts
ValidateAndOptimize(linkedin_prompt, github_prompt, jd) ==
    [linkedin |-> ValidateOne(linkedin_prompt, jd.job_title),
     github |-> ValidateOne(github_prompt, jd.job_title)]

(***************************************************************************)
(* The resume scorer (main.py)                                             *)
(***************************************************************************)

\* d.get(k): the value of the key, None when the dictionary has no such key.
\* A dictionary is a function from the keys it has.
Get(d, k) == IF k \in DOMAIN d THEN d[k] ELSE None

\* The characters of the class [a-zA-Z0-9+#.].
TokenChars == LowerSet \cup UpperSet \cup DigitChars \cup {"+", "#", "."}

RECURSIVE TokensFrom(_, _)
\* re.findall(r"[a-zA-Z0-9+#.]+", s), as a set: the maximal runs of token
\* characters of s that start at index i or later.
TokensFrom(s, i) ==
    IF \A j \in i..Len(s) : SubSeq(s, j, j) \notin TokenChars THEN {}
    ELSE LET b == CHOOSE j \in i..Len(s) :
                      /\ SubSeq(s, j, j) \in TokenChars
                      /\ \A k \in i..(j - 1) : SubSeq(s, k, k) \notin TokenChars
             e == RunEnd(s, b, TokenChars)
         IN {SubSeq(s, b, e - 1)} \cup TokensFrom(s, e)

stop == {"the", "and", "in", "of", "to", "a", "an", "with", "for", "on", "at", "by",
         "is", "are", "as", "be"}

\* _simple_tokenize(s), s a string or None
SimpleTokenize(s) == TokensFrom(Lower(IF Falsy(s) THEN "" ELSE s[1]), 1) \ stop

\* The part a scalar key contributes: str(v) when v is truthy.
ScalarPart(v) == IF Falsy(v) THEN <<>> ELSE <<v[1]>>

\* jd_obj.get("skills_required") or []
SkillsPart(skills) == IF IsNone(skills) THEN <<>> ELSE skills[1]

\* if jd_obj: a dictionary that is not None and has a key
Truthy(jd_obj) == ~IsNone(jd_obj) /\ DOMAIN jd_obj[1] # {}

\* parts, after the loop over the three keys and the skills
Parts(jd_obj) ==
    IF Truthy(jd_obj)
    THEN ScalarPart(Get(jd_obj[1], "job_title"))
         \o ScalarPart(Get(jd_obj[1], "location"))
         \o ScalarPart(Get(jd_obj[1], "experience_required"))
         \o SkillsPart(Get(jd_obj[1], "skills_required"))
    ELSE <<>>

\* joined or (jd_fallback_text or "")
OrFallback(joined, jd_fallback_text) ==
    IF joined # "" THEN joined
    ELSE IF Falsy(jd_fallback_text) THEN "" ELSE jd_fallback_text[1]

\* A job text that never falls back when the record is there.
JDTextOfRecordAlone(jd_obj, jd_fallback_text) ==
    IF IsNone(jd_obj) THEN OrFallback("", jd_fallback_text)
    ELSE Strip(Join(Parts(jd_obj), " "))

\* jd_text = (" ".join(parts)).strip() or (jd_fallback_text or "")
JDText(jd_obj, jd_fallback_text) ==
    OrFallback(Strip(Join(Parts(jd_obj), " ")), jd_fallback_text)

\* Truncation instead of rounding.
RoundDown(n, d) == n \div d

\* int(round(n / d)) for naturals n and d > 0: Python 3 rounds a tie to the
\* even neighbour.
RoundHalfEven(n, d) ==
    IF 2 * (n % d) < d THEN n \div d
    ELSE IF 2 * (n % d) > d THEN (n \div d) + 1
    ELSE IF (n \div d) % 2 = 0 THEN n \div d ELSE (n \div d) + 1

\* max(denom, 1)
AtLeastOne(denom) == IF denom > 1 THEN denom ELSE 1

\* Percent of the scale the overlap ratio is multiplied by.
Percent == 100

\* score, reasoning for an overlap of a job token set of denom terms
Matched(overlap, denom) ==
    << RoundHalfEven(Percent * overlap, AtLeastOne(denom)),
       "Matched " \o ToString(overlap) \o " of " \o ToString(denom) \o " JD terms." >>

InsufficientData == <<0, "Insufficient data to compute score">>

\* The scoring without the test for an empty token set.
ScoreOfUnguarded(R, J) == Matched(Cardinality(R \cap J), Cardinality(J))

\* if not R or not J: return 0, "Insufficient ..."; else the overlap score
ScoreOf(R, J) ==
    IF R = {} \/ J = {} THEN InsufficientData
    ELSE Matched(Cardinality(R \cap J), Cardinality(J))

(***************************************************************************)
(* Bounds of the model                                                     *)
(***************************************************************************)

\* The longest list of profiles handed to rank_profiles.
MaxProfiles == 3

\* The most lines of a generated raw text.
MaxLines == 2

\* The most filler words of a generated prompt.
MaxFillerWords == 26

VARIABLES
    heap,             \* the profile dictionaries, by name: a profile is shared
                      \* between the caller's list and the returned list
    raw_profiles,     \* rank_profiles' argument: the caller's list (names)
    ranked_profiles,  \* rank_profiles' local list
    rank_pc,          \* "off", "idle", "loop" or "done"
    rank_i,           \* index of the profile the loop is at
    rank_result,      \* what rank_profiles returned
    score_calls,      \* number of chain.invoke calls made by rank_profiles
    ext_score,        \* per profile, what the scoring capability answered
    content,          \* process_job_description's text content
    jd_pc,            \* "off", "start", "structuring", "gen_linkedin", "gen_github",
                      \* "done"; "extract" and "extracted" for the extractor alone
    raw_text,         \* the text handed to clean_and_structure_jd
    struct_calls,     \* number of structuring chain.invoke calls
    ext_struct,       \* what the structuring capability did: kind and response
    struct_ret,       \* what clean_and_structure_jd did: kind "none", "returned"
                      \* or "raised", its value, and the path that produced it
    structured_jd,    \* process_jd's record, raw_text and content_type attached
    gen_calls,        \* per prompt, number of generation chain.invoke calls
    gen_outcome,      \* per prompt, "none", "ok" or "failed"
    prompt_from,      \* per prompt, "none", "external" or "template"
    prompts,          \* generate_prompts' pair
    result,           \* process_job_description's result
    vp_pc,            \* validation pass alone: "off", "input", "once", "twice"
    vp_in,            \* its input prompts
    vp_jd,            \* its job record
    vp_out,           \* its output
    vp_out2,          \* its output for its own output
    score_pc,         \* the resume scorer: "off", "idle" or "done"
    resume_text,      \* _score_resume_against_jd's arguments
    jd_obj,
    jd_fallback_text,
    jd_text,          \* its local job text
    score_ret,        \* what it returned: score, reasoning
    jobs,             \* the jobs collection: per job id its status, "none" before
                      \* the job is created, "deleted" after its document is deleted
    candidates,       \* the candidates collection: documents with link and job_id
    db_pc,            \* delete_job: "off", "idle", "deleting" or "done"
    del_job,          \* its argument
    del_ret,          \* what it returned
    http_resp         \* the last answer of an endpoint

rankVars == <<heap, raw_profiles, ranked_profiles, rank_pc, rank_i, rank_result,
              score_calls, ext_score>>

jdVars == <<content, jd_pc, raw_text, struct_calls, ext_struct, struct_ret,
            structured_jd, gen_calls, gen_outcome, prompt_from, prompts, result>>

vpVars == <<vp_pc, vp_in, vp_jd, vp_out, vp_out2>>

scoreVars == <<score_pc, resume_text, jd_obj, jd_fallback_text, jd_text, score_ret>>

dbVars == <<jobs, candidates, db_pc, del_job, del_ret, http_resp>>

vars == <<rankVars, jdVars, vpVars, scoreVars, dbVars>>

(***************************************************************************)
(* Candidate ranking engine: ProfileRanker.rank_profiles                   *)
(***************************************************************************)

ProfileNames == {"A", "B", "C", "D"}

\* The candidate profiles the caller can pass; "" stands for an absent, None or
\* empty string field (the code only tests these fields for truth).
ProfilePool ==
    [n \in ProfileNames |->
        CASE n = "A" -> [name |-> "A", title |-> "Backend Developer", source |-> "GitHub",
                         repos |-> <<[name |-> "api", stars |-> 12]>>,
                         match_score |-> None, reasoning |-> None]
          [] n = "B" -> [name |-> "B", title |-> "", source |-> "LinkedIn",
                         repos |-> <<>>,
                         match_score |-> Some(70), reasoning |-> Some("Earlier run")]
          [] n = "C" -> [name |-> "C", title |-> "", source |-> "",
                         repos |-> <<>>,
                         match_score |-> None, reasoning |-> None]
          [] n = "D" -> [name |-> "D", title |-> "Data Engineer", source |-> "",
                         repos |-> <<[name |-> "etl", stars |-> 0]>>,
                         match_score |-> Some(0), reasoning |-> None]]

\* The integers the scoring capability may answer: the schema asks for an integer,
\* the prompt for 1-100, and nothing makes the model comply.
ScoreAnswers == {-1, 50, 60, 150}

ReasoningAnswers == {"Strong Python and API experience."}

NoAnswer == [kind |-> "none", match_score |-> 0, reasoning |-> ""]

\* Lists of distinct profiles of at most MaxProfiles entries.
ProfileLists ==
    UNION {{s \in [1..n -> ProfileNames] : \A i, j \in 1..n : i # j => s[i] # s[j]}
           : n \in 0..MaxProfiles}

\* p.get('match_score', 0) of the sort key
SortKey(p) == IF IsNone(p.match_score) THEN 0 ELSE p.match_score[1]

\* A descending insertion that puts an entry before the entries of equal key, as
\* sorting ascending and reversing the list would.
InsertBeforeEqual(s, n, h) ==
    LET k == Cardinality({i \in 1..Len(s) : SortKey(h[s[i]]) > SortKey(h[n])})
    IN SubSeq(s, 1, k) \o <<n>> \o SubSeq(s, k + 1, Len(s))

\* Insert name n into the list s, sorted by key descending, after every entry
\* whose key is at least n's: entries of equal key keep their order.
SortInsert(s, n, h) ==
    LET k == Cardinality({i \in 1..Len(s) : SortKey(h[s[i]]) >= SortKey(h[n])})
    IN SubSeq(s, 1, k) \o <<n>> \o SubSeq(s, k + 1, Len(s))

RECURSIVE SortDescFrom(_, _, _)
SortDescFrom(done, rest, h) ==
    IF rest = <<>> THEN done
    ELSE SortDescFrom(SortInsert(done, Head(rest), h), Tail(rest), h)

\* A ranking that leaves out the profiles without a score.
SortDescScoredOnly(s, h) ==
    SelectSeqOf(SortDescFrom(<<>>, s, h), {n \in Range(s) : SortKey(h[n]) # 0})

\* list.sort(key=lambda p: p.get('match_score', 0), reverse=True): Python's sort
\* is stable, with reverse=True too.
SortDesc(s, h) == SortDescFrom(<<>>, s, h)

\* The score the except branch ignores the previous value for.
FallbackScoreZero(p) == 0

\* profile.get('match_score') or 0
FallbackScore(p) == IF IsNone(p.match_score) THEN 0 ELSE p.match_score[1]

\* The except branch's reasoning.
FallbackReasoning(p) ==
    LET bits == SelectSeqOf(<<p.title, p.source>>, {p.title, p.source} \ {""})
                \o (IF p.repos # <<>> THEN <<"GitHub repos present">> ELSE <<>>)
        joined == Join(bits, ", ")
    IN IF joined = "" THEN "Insufficient data." ELSE joined

\* What rank_profiles returns for no profiles, were it a bare return.
EmptyRankResultNone == Some("None")

\* return [] of the empty-input guard
EmptyRankResult == <<>>

\* rank_profiles is entered: the empty-input guard, then the chain is built.
RankCall ==
    /\ rank_pc = "idle"
    /\ IF raw_profiles = <<>>
       THEN /\ rank_pc' = "done"
            /\ rank_result' = EmptyRankResult
            /\ rank_i' = rank_i
       ELSE /\ rank_pc' = "loop"
            /\ rank_i' = 1
            /\ rank_result' = rank_result
    /\ UNCHANGED <<heap, raw_profiles, ranked_profiles, score_calls, ext_score>>
    /\ UNCHANGED <<jdVars, vpVars, scoreVars, dbVars>>

\* The end of one iteration: ranked_profiles.append(profile); after the last
\* profile the list is sorted and returned.
EndIteration(h) ==
    LET appended == Append(ranked_profiles, raw_profiles[rank_i])
    IN IF rank_i = Len(raw_profiles)
       THEN /\ ranked_profiles' = SortDesc(appended, h)
            /\ rank_result' = SortDesc(appended, h)
            /\ rank_pc' = "done"
            /\ rank_i' = rank_i
       ELSE /\ ranked_profiles' = appended
            /\ rank_result' = rank_result
            /\ rank_pc' = "loop"
            /\ rank_i' = rank_i + 1

\* One iteration whose chain.invoke returns {match_score, reasoning}.
ScoreProfile ==
    /\ rank_pc = "loop"
    /\ \E s \in ScoreAnswers, r \in ReasoningAnswers :
          LET n == raw_profiles[rank_i]
              h == [heap EXCEPT ![n].match_score = Some(s), ![n].reasoning = Some(r)]
          IN /\ heap' = h
             /\ ext_score' = [ext_score EXCEPT
                                 ![n] = [kind |-> "ok", match_score |-> s, reasoning |-> r]]
             /\ EndIteration(h)
    /\ score_calls' = score_calls + 1
    /\ UNCHANGED raw_profiles
    /\ UNCHANGED <<jdVars, vpVars, scoreVars, dbVars>>

\* One iteration whose chain.invoke raises: the except branch.
ScoreFails ==
    /\ rank_pc = "loop"
    /\ LET n == raw_profiles[rank_i]
           p == heap[n]
           h == [heap EXCEPT ![n].match_score = Some(FallbackScore(p)),
                             ![n].reasoning = Some(FallbackReasoning(p))]
       IN /\ heap' = h
          /\ ext_score' = [ext_score EXCEPT ![n].kind = "fail"]
          /\ EndIteration(h)
    /\ score_calls' = score_calls + 1
    /\ UNCHANGED raw_profiles
    /\ UNCHANGED <<jdVars, vpVars, scoreVars, dbVars>>

NextRank == RankCall \/ ScoreProfile \/ ScoreFails

\* An interruption that undoes what the run wrote.
InterruptRollsBack ==
    /\ rank_pc = "loop"
    /\ rank_pc' = "interrupted"
    /\ heap' = ProfilePool
    /\ score_calls' = score_calls + 1
    /\ UNCHANGED <<raw_profiles, ranked_profiles, rank_i, rank_result, ext_score>>
    /\ UNCHANGED <<jdVars, vpVars, scoreVars, dbVars>>

\* A cancellation arrives while chain.invoke is waiting: it is no Exception, the
\* except branch does not catch it and rank_profiles is left without a return.
\* The profiles are the caller's dictionaries, written in place.
Interrupt ==
    /\ rank_pc = "loop"
    /\ rank_pc' = "interrupted"
    /\ score_calls' = score_calls + 1
    /\ UNCHANGED <<heap, raw_profiles, ranked_profiles, rank_i, rank_result, ext_score>>
    /\ UNCHANGED <<jdVars, vpVars, scoreVars, dbVars>>

\* A cancellation arrives between the two assignments that follow the call: the
\* profile at hand has its match_score and not yet its reasoning.
InterruptBetweenWrites ==
    /\ rank_pc = "loop"
    /\ \E s \in ScoreAnswers, r \in ReasoningAnswers :
          LET n == raw_profiles[rank_i]
          IN /\ heap' = [heap EXCEPT ![n].match_score = Some(s)]
             /\ ext_score' = [ext_score EXCEPT
                                 ![n] = [kind |-> "ok", match_score |-> s, reasoning |-> r]]
    /\ rank_pc' = "interrupted"
    /\ score_calls' = score_calls + 1
    /\ UNCHANGED <<raw_profiles, ranked_profiles, rank_i, rank_result>>
    /\ UNCHANGED <<jdVars, vpVars, scoreVars, dbVars>>

NextInterrupt == Interrupt \/ InterruptBetweenWrites

(***************************************************************************)
(* Structuring orchestrator and pipeline: JDParser.clean_and_structure_jd, *)
(* JDParser.process_jd, PromptGenerator.generate_prompts and               *)
(* JDProcessor.process_job_description, for content of type 'text'         *)
(***************************************************************************)

PromptKinds == {"linkedin", "github"}

\* The example document of the specification's testable properties.
ExampleText ==
    "Senior Backend Engineer\n\nRequirements:\n- 5+ years experience\n- Strong in Python and AWS\n\nResponsibilities:\n- Build scalable services"

\* Lines the generated raw texts are made of.
LinePool ==
    {"", "   ", "Senior Backend Engineer ", "Company: Acme Inc.", "employer:",
     "Location:", "Based in: Pune, India", "Requirements:", "- 5+ years experience",
     "1.", "2) Lead the data team", "-",
     "We are hiring across Bangalore Mumbai Delhi Pune Chennai and Kolkata offices this year"}

\* A document with a bullet before any header, more bullets under one header
\* than the extractor keeps, numbered bullets and bullets of little text.
LongSectionText ==
    Join(<<"Hiring now", "- An early bullet before any header", "Requirements:">>
         \o [i \in 1..(MaxSectionItems + 2) |-> "- Strong knowledge of topic " \o ToString(i)]
         \o <<"Duties:", "1. Lead the data platform team", "2) Short", "- tiny",
              "* Maintain the nightly jobs", "10. Not a numbered bullet at all">>,
         "\n")

\* A document whose bullets contain section keywords.
BulletHeaderText ==
    Join(<<"Requirements:", "- Strong SQL knowledge needed",
           "- Daily duties include reporting", "- Write the weekly report",
           "- Role requirements and tasks overview", "- Keep documentation current",
           "- The daily duties of this position include a lot of reporting work">>,
         "\n")

\* Documents for the title, company and location scans.
ScanTexts ==
    {"Acme Corp\nSenior Backend Engineer\nPune",
     "About us\nWe are a small and friendly team of builders in Europe\nData Analyst wanted",
     "Employer: Acme Technologies\nBackend Engineer",
     "Company: Acme\nGlobex Solutions\nBackend Engineer",
     "Organization: Initech\nBackend Engineer",
     "Location:\nBackend Engineer\nBased in: Pune, India",
     "Backend Engineer\nOur teams sit in the big office we opened in New York last spring",
     "Backend Engineer\nOur teams sit in the big office we opened in London last spring\nRemote",
     "Backend Engineer\nYou can work from home on most days of the week if you like that\nOffice: Berlin"}

\* The raw texts handed to the extractor alone.
ExtractTexts ==
    {ExampleText, LongSectionText, BulletHeaderText}
    \cup ScanTexts
    \cup UNION {{Join(ls, "\n") : ls \in [1..n -> LinePool]} : n \in 0..MaxLines}

\* The text contents handed to process_job_description.
PipelineContents ==
    {ExampleText, "", "  \n ", " Data Analyst\nemployer:\nRemote ",
     "Company: Acme Inc.\nLocation: Pune\n3-5 years of experience in SQL",
     "We build things"}

EmptyRecord ==
    [job_title |-> None, company |-> None, location |-> None,
     experience_required |-> None, skills_required |-> Some(<<>>), job_type |-> None,
     salary_range |-> None, job_description |-> Some("We build things"),
     requirements |-> Some(<<>>), responsibilities |-> Some(<<>>),
     fallback_used |-> FALSE]

FullRecord ==
    [job_title |-> Some("Data Engineer"), company |-> Some("Acme"),
     location |-> Some("Pune"), experience_required |-> Some("3-5 years"),
     skills_required |-> Some(<<"Communication", "Python", "Spark", "Java">>),
     job_type |-> Some("Full-time"), salary_range |-> None,
     job_description |-> Some("Build and run the data platform."),
     requirements |-> Some(<<"Build data pipelines">>),
     responsibilities |-> Some(<<"Own the nightly jobs">>),
     fallback_used |-> FALSE]

\* A record with more entries than the extractor keeps, one skill twice; the
\* schema bounds neither the length nor the entries of its arrays.
OverfullRecord ==
    [FullRecord EXCEPT
        !.skills_required =
            Some(<<"Python", "Python">> \o [i \in 1..(MaxSkills - 1) |-> "Skill " \o ToString(i)]),
        !.requirements =
            Some([i \in 1..(MaxSectionItems + 1) |-> "Requirement " \o ToString(i)]),
        !.responsibilities =
            Some([i \in 1..(MaxSectionItems + 1) |-> "Responsibility " \o ToString(i)])]

\* A record without location whose skills name no technology.
SoftSkillsRecord ==
    [FullRecord EXCEPT
        !.job_title = Some("Platform Engineer"), !.location = None,
        !.skills_required = Some(<<"Communication", "Leadership", "Sql">>)]

\* Responses that conform to json_schema: the schema's properties, the required ones
\* present, lists where it asks for arrays.
ConformingResponses ==
    {Some(EmptyRecord), Some(FullRecord), Some(OverfullRecord), Some(SoftSkillsRecord)}

\* Responses that do not: no tool call at all (the chain returns None), and
\* records whose required arrays are null.
NonConformingResponses ==
    {None,
     Some([FullRecord EXCEPT !.skills_required = None, !.requirements = None]),
     Some([FullRecord EXCEPT !.requirements = None])}

\* What the generation capability may write.
GenTexts ==
    {" Senior Python developer in Pune \n",
     "data engineer spark pune",
     Join([i \in 1..21 |-> "kubernetes"], " ")}

NoStruct == [kind |-> "none", value |-> None]

NoReturn == [kind |-> "none", value |-> None, path |-> "none"]

NoJD == [jd |-> None, raw_text |-> "", content_type |-> ""]

NoResult == [pipeline_status |-> "none", structured_jd |-> NoJD,
             linkedin_prompt |-> "", github_prompt |-> ""]

\* parse_text
ParseText(text) == Strip(text)

\* process_job_description is entered; process_jd extracts the raw text and
\* clean_and_structure_jd calls the structuring capability.
ProcessStart ==
    /\ jd_pc = "start"
    /\ raw_text' = ParseText(content)
    /\ jd_pc' = "structuring"
    /\ UNCHANGED <<content, struct_calls, ext_struct, struct_ret, structured_jd,
                   gen_calls, gen_outcome, prompt_from, prompts, result>>
    /\ UNCHANGED <<rankVars, vpVars, scoreVars, dbVars>>

\* The except branch of process_job_description.
ErrorResult ==
    [pipeline_status |-> "error",
     structured_jd |->
        [jd |-> Some([EmptyRecord EXCEPT !.job_description = Some(content)]),
         raw_text |-> content, content_type |-> "text"],
     linkedin_prompt |-> "Software Engineer",
     github_prompt |-> "Developer"]

\* Steps 3 and 4 of process_job_description: the validation pass and the result;
\* the metadata takes len() of skills_required and requirements.
PipelineResult(sjd, pair) ==
    LET optimized == ValidateAndOptimize(pair.linkedin, pair.github, sjd.jd[1])
    IN IF IsNone(sjd.jd[1].skills_required) \/ IsNone(sjd.jd[1].requirements)
       THEN ErrorResult
       ELSE [pipeline_status |-> "success", structured_jd |-> sjd,
             linkedin_prompt |-> optimized.linkedin,
             github_prompt |-> optimized.github]

BothTemplates(jd) ==
    [k \in PromptKinds |->
        IF k = "linkedin" THEN FallbackLinkedinPrompt(jd) ELSE FallbackGithubPrompt(jd)]

\* What follows clean_and_structure_jd's return or raise, up to the next external
\* call: process_jd attaches raw_text and content_type, generate_prompts starts.
AfterStructure(ret) ==
    IF ret.kind = "raised" \/ IsNone(ret.value)
    THEN \* process_jd raises (a None has no item assignment), and
         \* process_job_description answers its error result
         /\ structured_jd' = structured_jd
         /\ result' = ErrorResult
         /\ jd_pc' = "done"
         /\ UNCHANGED <<prompt_from, prompts>>
    ELSE LET jd == ret.value[1]
             sjd == [jd |-> Some(jd), raw_text |-> raw_text, content_type |-> "text"]
         IN /\ structured_jd' = sjd
            /\ IF TemplatesOnly(jd) \/ ContextRaises(jd)
               THEN IF FallbackGithubRaises(jd)
                    THEN \* the template raises in every handler of generate_prompts
                         /\ result' = ErrorResult
                         /\ jd_pc' = "done"
                         /\ UNCHANGED <<prompt_from, prompts>>
                    ELSE /\ prompts' = BothTemplates(jd)
                         /\ prompt_from' = [k \in PromptKinds |-> "template"]
                         /\ result' = PipelineResult(sjd, BothTemplates(jd))
                         /\ jd_pc' = "done"
               ELSE /\ jd_pc' = "gen_linkedin"
                    /\ UNCHANGED <<prompt_from, prompts, result>>

\* return structured_data: the response, as it is
ReturnedVerbatim(response) == [kind |-> "returned", value |-> response, path |-> "external"]

\* The structuring chain.invoke returns a response.
StructureReturns ==
    /\ jd_pc = "structuring"
    /\ \E response \in ConformingResponses \cup NonConformingResponses :
          /\ ext_struct' = [kind |-> IF response \in ConformingResponses
                                     THEN "conforming" ELSE "nonconforming",
                            value |-> response]
          /\ struct_ret' = ReturnedVerbatim(response)
          /\ AfterStructure(struct_ret')
    /\ struct_calls' = struct_calls + 1
    /\ UNCHANGED <<content, raw_text, gen_calls, gen_outcome>>
    /\ UNCHANGED <<rankVars, vpVars, scoreVars, dbVars>>

\* An except branch that raises again instead of returning the extractor's record.
FallbackOutcomeRaisedAgain(f) == [kind |-> "raised", value |-> None, path |-> "fallback"]

\* clean_and_structure_jd's except branch: return self._fallback_structure_jd(raw_text)
FallbackOutcome(f) ==
    [kind |-> IF f.raised THEN "raised" ELSE "returned",
     value |-> IF f.raised THEN None ELSE Some(f.record),
     path |-> "fallback"]

FallbackReturn(text) == FallbackOutcome(FallbackStructureJD(text))

\* An except branch that calls the structuring capability a second time before
\* it falls back.
StructureRaisesRetried ==
    /\ jd_pc = "structuring"
    /\ ext_struct' = [kind |-> "raised", value |-> None]
    /\ struct_ret' = FallbackReturn(raw_text)
    /\ AfterStructure(struct_ret')
    /\ struct_calls' = struct_calls + 2
    /\ UNCHANGED <<content, raw_text, gen_calls, gen_outcome>>
    /\ UNCHANGED <<rankVars, vpVars, scoreVars, dbVars>>

\* The structuring chain.invoke raises.
StructureRaises ==
    /\ jd_pc = "structuring"
    /\ ext_struct' = [kind |-> "raised", value |-> None]
    /\ struct_ret' = FallbackReturn(raw_text)
    /\ AfterStructure(struct_ret')
    /\ struct_calls' = struct_calls + 1
    /\ UNCHANGED <<content, raw_text, gen_calls, gen_outcome>>
    /\ UNCHANGED <<rankVars, vpVars, scoreVars, dbVars>>

\* The prompt of kind k is p; after the linkedin prompt generate_github_prompt
\* calls the model, after the github prompt generate_prompts returns and the
\* pipeline finishes.
PromptDone(k, p, from) ==
    LET pair == [prompts EXCEPT ![k] = p]
    IN /\ prompts' = pair
       /\ prompt_from' = [prompt_from EXCEPT ![k] = from]
       /\ gen_calls' = [gen_calls EXCEPT ![k] = @ + 1]
       /\ IF k = "linkedin"
          THEN jd_pc' = "gen_github" /\ result' = result
          ELSE jd_pc' = "done" /\ result' = PipelineResult(structured_jd, pair)

\* A generation chain.invoke returns: response.content.strip()
GenerateReturns(k) ==
    /\ jd_pc = "gen_" \o k
    /\ \E text \in GenTexts : PromptDone(k, Strip(text), "external")
    /\ gen_outcome' = [gen_outcome EXCEPT ![k] = "ok"]
    /\ UNCHANGED <<content, raw_text, struct_calls, ext_struct, struct_ret, structured_jd>>
    /\ UNCHANGED <<rankVars, vpVars, scoreVars, dbVars>>

\* A generation chain.invoke raises: the method's own except branch.
GenerateFails(k) ==
    /\ jd_pc = "gen_" \o k
    /\ PromptDone(k, BothTemplates(structured_jd.jd[1])[k], "template")
    /\ gen_outcome' = [gen_outcome EXCEPT ![k] = "failed"]
    /\ UNCHANGED <<content, raw_text, struct_calls, ext_struct, struct_ret, structured_jd>>
    /\ UNCHANGED <<rankVars, vpVars, scoreVars, dbVars>>

NextJD ==
    \/ ProcessStart
    \/ StructureReturns
    \/ StructureRaises
    \/ \E k \in PromptKinds : GenerateReturns(k)
    \/ \E k \in PromptKinds : GenerateFails(k)

(***************************************************************************)
(* The rule-based extractor called alone                                   *)
(***************************************************************************)

\* _fallback_structure_jd(raw_text)
ExtractFallback ==
    /\ jd_pc = "extract"
    /\ struct_ret' = FallbackReturn(raw_text)
    /\ jd_pc' = "extracted"
    /\ UNCHANGED <<content, raw_text, struct_calls, ext_struct, structured_jd,
                   gen_calls, gen_outcome, prompt_from, prompts, result>>
    /\ UNCHANGED <<rankVars, vpVars, scoreVars, dbVars>>

NextExtract == ExtractFallback

(***************************************************************************)
(* The validation pass called alone, then on its own output                *)
(***************************************************************************)

\* n copies of word, separated by sep.
Filler(word, n, sep) == Join([i \in 1..n |-> word], sep)

FillerPrompts ==
    {Filler(w, n, sep) : w \in {"go", "backend", "kubernetes"},
                         n \in 0..MaxFillerWords, sep \in {" ", "  "}}

\* The prompts handed to the validation pass: fillers, alone, after a title or
\* before one.
LinkedinInputs ==
    FillerPrompts
    \cup {"senior data engineer " \o p : p \in FillerPrompts}
    \cup {p \o " Data Engineer" : p \in FillerPrompts}

GithubInputs == {"", "Data Engineer Python", Filler("backend", 25, " ")}

TitleInputs == {None, Some(""), Some("Data Engineer")}

\* validate_and_optimize_prompts(linkedin_prompt, github_prompt, structured_jd)
ValidateOnce ==
    /\ vp_pc = "input"
    /\ vp_out' = ValidateAndOptimize(vp_in.linkedin, vp_in.github, vp_jd)
    /\ vp_pc' = "once"
    /\ UNCHANGED <<vp_in, vp_jd, vp_out2>>
    /\ UNCHANGED <<rankVars, jdVars, scoreVars, dbVars>>

\* The pass again, on what it returned.
ValidateAgain ==
    /\ vp_pc = "once"
    /\ vp_out2' = ValidateAndOptimize(vp_out.linkedin, vp_out.github, vp_jd)
    /\ vp_pc' = "twice"
    /\ UNCHANGED <<vp_in, vp_jd, vp_out>>
    /\ UNCHANGED <<rankVars, jdVars, scoreVars, dbVars>>

NextVP == ValidateOnce \/ ValidateAgain

(***************************************************************************)
(* _score_resume_against_jd (main.py)                                      *)
(***************************************************************************)

\* The resume texts: None, empty, stop words only, and texts with terms.
ResumeTexts ==
    { None, Some(""), Some("the and of"),
      Some("I know Python and React"),
      Some("Python, SQL, AWS; spark kafka airflow docker c++ (5 years)"),
      Some("C# .NET c++ node.js in Pune") }

\* A dictionary without keys.
EmptyDict == [k \in {} |-> None]

\* A job record with the four keys the scorer reads.
JobDict(job_title, location, experience_required, skills_required) ==
    [job_title |-> job_title, location |-> location,
     experience_required |-> experience_required, skills_required |-> skills_required]

\* The job records: None, no key, no key set, blank title, skills only, all set.
JobObjects ==
    { None, Some(EmptyDict),
      Some(JobDict(None, None, None, None)),
      Some(JobDict(Some("  "), Some(""), None, Some(<<>>))),
      Some(JobDict(None, None, None, Some(<<"Python", "Go">>))),
      Some(JobDict(None, None, None,
                   Some(<<"Python", "SQL", "AWS", "Spark", "Kafka", "Airflow",
                          "Docker", "C++">>))),
      Some(JobDict(Some("Data Engineer"), Some("Pune"), Some("5+"),
                   Some(<<"Python", "Node.js">>))) }

\* job.get("linkedin_prompt") or job.get("github_prompt") or ""
FallbackTexts ==
    { None, Some(""), Some("python java"), Some("Senior Python developer in the cloud") }

NoScore == <<>>

\* _score_resume_against_jd(resume_text, jd_obj, jd_fallback_text)
ScoreResume ==
    /\ score_pc = "idle"
    /\ jd_text' = JDText(jd_obj, jd_fallback_text)
    /\ score_ret' = ScoreOf(SimpleTokenize(resume_text), SimpleTokenize(Some(jd_text')))
    /\ score_pc' = "done"
    /\ UNCHANGED <<resume_text, jd_obj, jd_fallback_text>>
    /\ UNCHANGED <<rankVars, jdVars, vpVars, dbVars>>

NextScore == ScoreResume

(***************************************************************************)
(* The job store (utils/database.py) and the job endpoints of main.py.     *)
(* The sourcing task that create_sourcing_job starts in the background     *)
(* calls add_candidate for its job for as long as it runs; its calls are   *)
(* steps of the environment.                                               *)
(***************************************************************************)

JobIds == {"j1", "j2"}

\* The links of the candidates a sourcing task may find.
Links == {"l1", "l2"}

\* allowed of set_job_status
allowed == {"pending", "running", "completed", "failed", "hired"}

\* The status values a request may carry: the allowed ones and another.
RequestedStatuses == allowed \cup {"archived"}

\* A job that has not been created, and a job whose document has been deleted.
NotCreated == "none"

Deleted == "deleted"

\* db.get_job(job_id) finds a document.
JobExists(job_id) == jobs[job_id] \notin {NotCreated, Deleted}

NoResponse == [op |-> "none", code |-> 0, kind |-> "none"]

\* create_sourcing_job: create_job stores the job as pending and the sourcing
\* task is started; job ids are fresh.
CreateJob(job_id) ==
    /\ db_pc # "off"
    /\ jobs[job_id] = NotCreated
    /\ jobs' = [jobs EXCEPT ![job_id] = "pending"]
    /\ http_resp' = [op |-> "create_sourcing_job", code |-> 202, kind |-> "pending"]
    /\ UNCHANGED <<candidates, db_pc, del_job, del_ret>>
    /\ UNCHANGED <<rankVars, jdVars, vpVars, scoreVars>>

\* add_candidate(candidate_data, job_id), called by the sourcing task of a
\* created job: insert_one, refused by the unique index on (link, job_id).
AddCandidate(link, job_id) ==
    /\ db_pc # "off"
    /\ jobs[job_id] # NotCreated
    /\ candidates' = candidates \cup {[link |-> link, job_id |-> job_id]}
    /\ UNCHANGED <<jobs, db_pc, del_job, del_ret, http_resp>>
    /\ UNCHANGED <<rankVars, jdVars, vpVars, scoreVars>>

\* delete_job(job_id), first statement: jobs_collection.delete_one; it returns
\* False when no document was deleted.
DeleteJobDocument(job_id) ==
    /\ db_pc = "idle"
    /\ del_job' = job_id
    /\ IF JobExists(job_id)
       THEN /\ jobs' = [jobs EXCEPT ![job_id] = Deleted]
            /\ db_pc' = "deleting"
            /\ del_ret' = del_ret
       ELSE /\ jobs' = jobs
            /\ db_pc' = "done"
            /\ del_ret' = Some(FALSE)
    /\ UNCHANGED <<candidates, http_resp>>
    /\ UNCHANGED <<rankVars, jdVars, vpVars, scoreVars>>

\* delete_job, second statement: candidates_collection.delete_many, return True.
DeleteJobCandidates ==
    /\ db_pc = "deleting"
    /\ candidates' = {c \in candidates : c.job_id # del_job}
    /\ del_ret' = Some(TRUE)
    /\ db_pc' = "done"
    /\ UNCHANGED <<jobs, del_job, http_resp>>
    /\ UNCHANGED <<rankVars, jdVars, vpVars, scoreVars>>

\* set_job_status(job_id, status)
SetJobStatus(job_id, status) ==
    /\ db_pc # "off"
    /\ IF ~JobExists(job_id)
       THEN /\ http_resp' = [op |-> "set_job_status", code |-> 404, kind |-> "not_found"]
            /\ jobs' = jobs
       ELSE IF status \notin allowed
       THEN /\ http_resp' = [op |-> "set_job_status", code |-> 400, kind |-> "invalid_status"]
            /\ jobs' = jobs
       ELSE /\ http_resp' = [op |-> "set_job_status", code |-> 200, kind |-> status]
            /\ jobs' = [jobs EXCEPT ![job_id] = status]
    /\ UNCHANGED <<candidates, db_pc, del_job, del_ret>>
    /\ UNCHANGED <<rankVars, jdVars, vpVars, scoreVars>>

\* The answer of get_job_results for a stored status.
ResultsFor(status) ==
    IF status = "failed" THEN [op |-> "get_job_results", code |-> 400, kind |-> "job_failed"]
    ELSE IF status = "completed"
    THEN [op |-> "get_job_results", code |-> 200, kind |-> "completed"]
    ELSE IF status = "running" \/ status = "pending"
    THEN [op |-> "get_job_results", code |-> 200, kind |-> "in_progress"]
    ELSE [op |-> "get_job_results", code |-> 400, kind |-> "unknown_status"]

\* get_job_results(job_id)
GetJobResults(job_id) ==
    /\ db_pc # "off"
    /\ http_resp' = IF ~JobExists(job_id)
                    THEN [op |-> "get_job_results", code |-> 404, kind |-> "not_found"]
                    ELSE ResultsFor(jobs[job_id])
    /\ UNCHANGED <<jobs, candidates, db_pc, del_job, del_ret>>
    /\ UNCHANGED <<rankVars, jdVars, vpVars, scoreVars>>

NextDB ==
    \/ \E job_id \in JobIds : CreateJob(job_id)
    \/ \E link \in Links, job_id \in JobIds : AddCandidate(link, job_id)
    \/ \E job_id \in JobIds : DeleteJobDocument(job_id)
    \/ DeleteJobCandidates
    \/ \E job_id \in JobIds, status \in RequestedStatuses : SetJobStatus(job_id, status)
    \/ \E job_id \in JobIds : GetJobResults(job_id)

(***************************************************************************)
(* Specifications: one per entry point.  The variables of the entry points *)
(* that are not called keep their idle values.                             *)
(***************************************************************************)

NoPrompts == [k \in PromptKinds |-> ""]

\* rank_profiles(raw_profiles, job_description) is about to be called.
InitRank ==
    /\ heap = ProfilePool
    /\ raw_profiles \in ProfileLists
    /\ ranked_profiles = <<>>
    /\ rank_pc = "idle"
    /\ rank_i = 0
    /\ rank_result = <<>>
    /\ score_calls = 0
    /\ ext_score = [n \in ProfileNames |-> NoAnswer]
    /\ content = ""
    /\ jd_pc = "off"
    /\ raw_text = ""
    /\ struct_calls = 0
    /\ ext_struct = NoStruct
    /\ struct_ret = NoReturn
    /\ structured_jd = NoJD
    /\ gen_calls = [k \in PromptKinds |-> 0]
    /\ gen_outcome = [k \in PromptKinds |-> "none"]
    /\ prompt_from = [k \in PromptKinds |-> "none"]
    /\ prompts = NoPrompts
    /\ result = NoResult
    /\ vp_pc = "off"
    /\ vp_in = NoPrompts
    /\ vp_jd = EmptyRecord
    /\ vp_out = NoPrompts
    /\ vp_out2 = NoPrompts
    /\ score_pc = "off"
    /\ resume_text = None
    /\ jd_obj = None
    /\ jd_fallback_text = None
    /\ jd_text = ""
    /\ score_ret = NoScore
    /\ jobs = [j \in JobIds |-> NotCreated]
    /\ candidates = {}
    /\ db_pc = "off"
    /\ del_job = ""
    /\ del_ret = None
    /\ http_resp = NoResponse

\* process_job_description(content, 'text') is about to be called.
InitJD ==
    /\ heap = ProfilePool
    /\ raw_profiles = <<>>
    /\ ranked_profiles = <<>>
    /\ rank_pc = "off"
    /\ rank_i = 0
    /\ rank_result = <<>>
    /\ score_calls = 0
    /\ ext_score = [n \in ProfileNames |-> NoAnswer]
    /\ content \in PipelineContents
    /\ jd_pc = "start"
    /\ raw_text = ""
    /\ struct_calls = 0
    /\ ext_struct = NoStruct
    /\ struct_ret = NoReturn
    /\ structured_jd = NoJD
    /\ gen_calls = [k \in PromptKinds |-> 0]
    /\ gen_outcome = [k \in PromptKinds |-> "none"]
    /\ prompt_from = [k \in PromptKinds |-> "none"]
    /\ prompts = NoPrompts
    /\ result = NoResult
    /\ vp_pc = "off"
    /\ vp_in = NoPrompts
    /\ vp_jd = EmptyRecord
    /\ vp_out = NoPrompts
    /\ vp_out2 = NoPrompts
    /\ score_pc = "off"
    /\ resume_text = None
    /\ jd_obj = None
    /\ jd_fallback_text = None
    /\ jd_text = ""
    /\ score_ret = NoScore
    /\ jobs = [j \in JobIds |-> NotCreated]
    /\ candidates = {}
    /\ db_pc = "off"
    /\ del_job = ""
    /\ del_ret = None
    /\ http_resp = NoResponse

\* _fallback_structure_jd(raw_text) is about to be called.
InitExtract ==
    /\ heap = ProfilePool
    /\ raw_profiles = <<>>
    /\ ranked_profiles = <<>>
    /\ rank_pc = "off"
    /\ rank_i = 0
    /\ rank_result = <<>>
    /\ score_calls = 0
    /\ ext_score = [n \in ProfileNames |-> NoAnswer]
    /\ content = ""
    /\ jd_pc = "extract"
    /\ raw_text \in ExtractTexts
    /\ struct_calls = 0
    /\ ext_struct = NoStruct
    /\ struct_ret = NoReturn
    /\ structured_jd = NoJD
    /\ gen_calls = [k \in PromptKinds |-> 0]
    /\ gen_outcome = [k \in PromptKinds |-> "none"]
    /\ prompt_from = [k \in PromptKinds |-> "none"]
    /\ prompts = NoPrompts
    /\ result = NoResult
    /\ vp_pc = "off"
    /\ vp_in = NoPrompts
    /\ vp_jd = EmptyRecord
    /\ vp_out = NoPrompts
    /\ vp_out2 = NoPrompts
    /\ score_pc = "off"
    /\ resume_text = None
    /\ jd_obj = None
    /\ jd_fallback_text = None
    /\ jd_text = ""
    /\ score_ret = NoScore
    /\ jobs = [j \in JobIds |-> NotCreated]
    /\ candidates = {}
    /\ db_pc = "off"
    /\ del_job = ""
    /\ del_ret = None
    /\ http_resp = NoResponse

\* validate_and_optimize_prompts is about to be called.
InitVP ==
    /\ heap = ProfilePool
    /\ raw_profiles = <<>>
    /\ ranked_profiles = <<>>
    /\ rank_pc = "off"
    /\ rank_i = 0
    /\ rank_result = <<>>
    /\ score_calls = 0
    /\ ext_score = [n \in ProfileNames |-> NoAnswer]
    /\ content = ""
    /\ jd_pc = "off"
    /\ raw_text = ""
    /\ struct_calls = 0
    /\ ext_struct = NoStruct
    /\ struct_ret = NoReturn
    /\ structured_jd = NoJD
    /\ gen_calls = [k \in PromptKinds |-> 0]
    /\ gen_outcome = [k \in PromptKinds |-> "none"]
    /\ prompt_from = [k \in PromptKinds |-> "none"]
    /\ prompts = NoPrompts
    /\ result = NoResult
    /\ vp_pc = "input"
    /\ \E l \in LinkedinInputs, g \in GithubInputs :
          vp_in = [k \in PromptKinds |-> IF k = "linkedin" THEN l ELSE g]
    /\ \E t \in TitleInputs : vp_jd = [EmptyRecord EXCEPT !.job_title = t]
    /\ vp_out = NoPrompts
    /\ vp_out2 = NoPrompts
    /\ score_pc = "off"
    /\ resume_text = None
    /\ jd_obj = None
    /\ jd_fallback_text = None
    /\ jd_text = ""
    /\ score_ret = NoScore
    /\ jobs = [j \in JobIds |-> NotCreated]
    /\ candidates = {}
    /\ db_pc = "off"
    /\ del_job = ""
    /\ del_ret = None
    /\ http_resp = NoResponse

\* _score_resume_against_jd(resume_text, jd_obj, jd_fallback_text) is about to be called.
InitScore ==
    /\ heap = ProfilePool
    /\ raw_profiles = <<>>
    /\ ranked_profiles = <<>>
    /\ rank_pc = "off"
    /\ rank_i = 0
    /\ rank_result = <<>>
    /\ score_calls = 0
    /\ ext_score = [n \in ProfileNames |-> NoAnswer]
    /\ content = ""
    /\ jd_pc = "off"
    /\ raw_text = ""
    /\ struct_calls = 0
    /\ ext_struct = NoStruct
    /\ struct_ret = NoReturn
    /\ structured_jd = NoJD
    /\ gen_calls = [k \in PromptKinds |-> 0]
    /\ gen_outcome = [k \in PromptKinds |-> "none"]
    /\ prompt_from = [k \in PromptKinds |-> "none"]
    /\ prompts = NoPrompts
    /\ result = NoResult
    /\ vp_pc = "off"
    /\ vp_in = NoPrompts
    /\ vp_jd = EmptyRecord
    /\ vp_out = NoPrompts
    /\ vp_out2 = NoPrompts
    /\ score_pc = "idle"
    /\ resume_text \in ResumeTexts
    /\ jd_obj \in JobObjects
    /\ jd_fallback_text \in FallbackTexts
    /\ jd_text = ""
    /\ score_ret = NoScore
    /\ jobs = [j \in JobIds |-> NotCreated]
    /\ candidates = {}
    /\ db_pc = "off"
    /\ del_job = ""
    /\ del_ret = None
    /\ http_resp = NoResponse

\* The store is empty; no delete_job call has been made.
InitDB ==
    /\ heap = ProfilePool
    /\ raw_profiles = <<>>
    /\ ranked_profiles = <<>>
    /\ rank_pc = "off"
    /\ rank_i = 0
    /\ rank_result = <<>>
    /\ score_calls = 0
    /\ ext_score = [n \in ProfileNames |-> NoAnswer]
    /\ content = ""
    /\ jd_pc = "off"
    /\ raw_text = ""
    /\ struct_calls = 0
    /\ ext_struct = NoStruct
    /\ struct_ret = NoReturn
    /\ structured_jd = NoJD
    /\ gen_calls = [k \in PromptKinds |-> 0]
    /\ gen_outcome = [k \in PromptKinds |-> "none"]
    /\ prompt_from = [k \in PromptKinds |-> "none"]
    /\ prompts = NoPrompts
    /\ result = NoResult
    /\ vp_pc = "off"
    /\ vp_in = NoPrompts
    /\ vp_jd = EmptyRecord
    /\ vp_out = NoPrompts
    /\ vp_out2 = NoPrompts
    /\ score_pc = "off"
    /\ resume_text = None
    /\ jd_obj = None
    /\ jd_fallback_text = None
    /\ jd_text = ""
    /\ score_ret = NoScore
    /\ jobs = [j \in JobIds |-> NotCreated]
    /\ candidates = {}
    /\ db_pc = "idle"
    /\ del_job = ""
    /\ del_ret = None
    /\ http_resp = NoResponse

Init == InitRank \/ InitJD \/ InitExtract \/ InitVP \/ InitScore \/ InitDB

Next == NextRank \/ NextInterrupt \/ NextJD \/ NextExtract \/ NextVP \/ NextScore \/ NextDB

Spec == Init /\ [][Next]_vars

\* rank_profiles
SpecRank == InitRank /\ [][NextRank]_vars

\* process_job_description
SpecJD == InitJD /\ [][NextJD]_vars

\* _fallback_structure_jd
SpecExtract == InitExtract /\ [][NextExtract]_vars

\* validate_and_optimize_prompts
SpecVP == InitVP /\ [][NextVP]_vars

\* _score_resume_against_jd
SpecScore == InitScore /\ [][NextScore]_vars

\* rank_profiles, with a cancellation that may arrive in the loop
SpecRankInterrupted == InitRank /\ [][NextRank \/ NextInterrupt]_vars

\* The job store and the job endpoints
SpecDB == InitDB /\ [][NextDB]_vars

(***************************************************************************)
(* Claims about the ranking engine                                         *)
(***************************************************************************)

\* Position of name n in the list s.
PosIn(s, n) == CHOOSE i \in 1..Len(s) : s[i] = n

RankReturnedList == rank_pc = "done" /\ raw_profiles # <<>>

\* C4: rank_profiles returns the profiles ordered by match_score descending, and
\* two profiles of equal match_score keep the relative order they had in the input.
C4_SortedDescendingStable ==
    RankReturnedList =>
        \A i, j \in 1..Len(rank_result) :
            i < j =>
                /\ SortKey(heap[rank_result[i]]) >= SortKey(heap[rank_result[j]])
                /\ SortKey(heap[rank_result[i]]) = SortKey(heap[rank_result[j]])
                      => PosIn(raw_profiles, rank_result[i]) < PosIn(raw_profiles, rank_result[j])

\* The example of C4: input [A(50), B(50), C(60)] has been ranked as [C, A, B].
C4_Witness ==
    /\ rank_pc = "done"
    /\ raw_profiles = <<"A", "B", "C">>
    /\ heap["A"].match_score = Some(50)
    /\ heap["B"].match_score = Some(50)
    /\ heap["C"].match_score = Some(60)
    /\ rank_result = <<"C", "A", "B">>

\* The reasoning C5 describes for each profile of the pool: its non-empty title
\* and source joined by ", ", then "GitHub repos present" when it has repos, and
\* "Insufficient data." when there is nothing.
C5_ExpectedReasoning ==
    [n \in ProfileNames |->
        CASE n = "A" -> "Backend Developer, GitHub, GitHub repos present"
          [] n = "B" -> "LinkedIn"
          [] n = "C" -> "Insufficient data."
          [] n = "D" -> "Data Engineer, GitHub repos present"]

\* The match_score a profile had before the call, 0 if it had none.
C5_PreviousScore ==
    [n \in ProfileNames |->
        CASE n = "B" -> 70
          [] OTHER -> 0]

\* C5: when the scoring call fails for a profile, every profile of the batch is
\* still scored and returned; the failing profile keeps its previous match_score
\* (0 if none) and gets the reasoning built from its title, source and repos; every
\* other profile has the match_score and reasoning the scoring capability gave it.
C5_FailureIsolated ==
    (RankReturnedList /\ \E n \in Range(raw_profiles) : ext_score[n].kind = "fail") =>
        /\ Len(rank_result) = Len(raw_profiles)
        /\ Range(rank_result) = Range(raw_profiles)
        /\ score_calls = Len(raw_profiles)
        /\ \A n \in Range(raw_profiles) :
              /\ ext_score[n].kind = "fail" =>
                    /\ heap[n].match_score = Some(C5_PreviousScore[n])
                    /\ heap[n].reasoning = Some(C5_ExpectedReasoning[n])
              /\ ext_score[n].kind # "fail" =>
                    /\ ext_score[n].kind = "ok"
                    /\ heap[n].match_score = Some(ext_score[n].match_score)
                    /\ heap[n].reasoning = Some(ext_score[n].reasoning)

\* A batch of three whose first call failed (a profile with a previous score) and
\* whose later calls succeeded.
C5_Witness ==
    /\ rank_pc = "done"
    /\ raw_profiles = <<"B", "C", "A">>
    /\ ext_score["B"].kind = "fail"
    /\ ext_score["C"].kind = "ok"
    /\ ext_score["A"].kind = "ok"
    /\ heap["B"].match_score = Some(70)
    /\ heap["B"].reasoning = Some("LinkedIn")

\* C6: rank_profiles called with an empty list returns an empty list and makes no
\* call to the scoring capability.
C6_EmptyInputNoCalls ==
    (rank_pc = "done" /\ raw_profiles = <<>>) =>
        /\ rank_result = <<>>
        /\ score_calls = 0

\* rank_profiles has returned for an empty list.
C6_Witness == rank_pc = "done" /\ raw_profiles = <<>> /\ ranked_profiles = <<>>

\* C7: after rank_profiles returns, every profile of the output carries a
\* match_score that is an integer between 0 and 100.
C7_ScoreWithin0To100 ==
    RankReturnedList =>
        \A i \in 1..Len(rank_result) :
            /\ ~IsNone(heap[rank_result[i]].match_score)
            /\ heap[rank_result[i]].match_score[1] \in 0..100

(***************************************************************************)
(* Claims about the rule-based extractor                                   *)
(***************************************************************************)

\* C1: for every raw text the rule-based extractor returns without raising, the
\* record it returns has lists (never null) for skills_required, requirements and
\* responsibilities, its job_description is the raw text unchanged, and its
\* fallback_used is true.
C1_ExtractorTotal ==
    jd_pc = "extracted" =>
        /\ struct_ret.kind = "returned"
        /\ ~IsNone(struct_ret.value)
        /\ ~IsNone(struct_ret.value[1].skills_required)
        /\ ~IsNone(struct_ret.value[1].requirements)
        /\ ~IsNone(struct_ret.value[1].responsibilities)
        /\ struct_ret.value[1].job_description = Some(raw_text)
        /\ struct_ret.value[1].fallback_used = TRUE

\* The extractor has returned for a text that strip() would change and that has a
\* company label with nothing after its colon.
C1_Witness ==
    /\ jd_pc = "extracted"
    /\ struct_ret.kind = "returned"
    /\ raw_text # Strip(raw_text)
    /\ Contains(raw_text, "employer:")

\* C2: for the example text the extractor yields a job_title containing "Senior
\* Backend Engineer", experience_required "5+", skills_required containing
\* "Python" and "Aws", requirements containing "5+ years experience" and "Strong
\* in Python and AWS", and responsibilities containing "Build scalable services".
C2_ExampleExtraction ==
    (jd_pc = "extracted" /\ raw_text = ExampleText) =>
        /\ struct_ret.kind = "returned"
        /\ ~IsNone(struct_ret.value[1].job_title)
        /\ Contains(struct_ret.value[1].job_title[1], "Senior Backend Engineer")
        /\ struct_ret.value[1].experience_required = Some("5+")
        /\ {"Python", "Aws"} \subseteq Range(struct_ret.value[1].skills_required[1])
        /\ {"5+ years experience", "Strong in Python and AWS"}
              \subseteq Range(struct_ret.value[1].requirements[1])
        /\ "Build scalable services" \in Range(struct_ret.value[1].responsibilities[1])

(***************************************************************************)
(* Claims about the validation pass                                        *)
(***************************************************************************)

\* C3: the validation pass applied to its own output, with the same job record,
\* returns that output: pass(pass(p)) = pass(p) for every prompt and job title.
C3_PassIdempotent == vp_pc = "twice" => vp_out2 = vp_out

(***************************************************************************)
(* Claims about the structuring orchestrator and prompt synthesis          *)
(***************************************************************************)

\* C8: when the external structuring call raises, or returns a malformed or
\* schema-non-conforming response, clean_and_structure_jd returns exactly the
\* record the rule-based extractor produces for the same raw text, and the failure
\* is not surfaced to the caller.
C8_FallbackOnFailure ==
    ext_struct.kind \in {"raised", "nonconforming"} =>
        /\ struct_ret.kind = "returned"
        /\ struct_ret.value = Some(FallbackStructureJD(raw_text).record)
        /\ result.pipeline_status # "error"

\* C9: a record returned by the structuring orchestrator has fallback_used true
\* exactly when the rule-based extractor produced it; on the success path the
\* external result is returned as it is, with fallback_used absent or false.
C9_FallbackFlag ==
    (struct_ret.kind = "returned" /\ ~IsNone(struct_ret.value)) =>
        /\ struct_ret.value[1].fallback_used = TRUE <=> struct_ret.path = "fallback"
        /\ struct_ret.path = "external" =>
              /\ struct_ret.value = ext_struct.value
              /\ struct_ret.value[1].fallback_used = FALSE

\* The structuring call raised and the orchestrator returned the extractor's record.
C9_Witness ==
    /\ ext_struct.kind = "raised"
    /\ struct_ret.kind = "returned"
    /\ struct_ret.path = "fallback"
    /\ struct_ret.value[1].fallback_used = TRUE

\* generate_prompts has returned its two prompts.
SynthesisReturned == \A k \in PromptKinds : prompt_from[k] # "none"

PassReturnedWithTitle == vp_pc \in {"once", "twice"} /\ ~Falsy(vp_jd.job_title)

\* C11: whenever the job record has a non-empty job_title, both prompts the
\* validation pass returns contain that title, compared case-insensitively,
\* whether or not the pass truncated the prompt.
C11_TitlePresent ==
    PassReturnedWithTitle =>
        \A k \in PromptKinds : Contains(Lower(vp_out[k]), Lower(vp_jd.job_title[1]))

\* The pass truncated a prompt of more than 200 characters whose title was among
\* the words cut off, and returned it with the title in front.
C11_Witness ==
    /\ vp_pc = "once"
    /\ vp_jd.job_title = Some("Data Engineer")
    /\ Len(vp_in.linkedin) > MaxPromptChars
    /\ Contains(vp_in.linkedin, "Data Engineer")
    /\ ~Contains(Lower(Truncated(vp_in.linkedin)), "data engineer")
    /\ StartsWith(vp_out.linkedin, "Data Engineer ")

\* C12: each prompt the validation pass returns is at most 200 characters long,
\* for every input prompt and every job title.
C12_AtMost200Chars ==
    vp_pc \in {"once", "twice"} => \A k \in PromptKinds : Len(vp_out[k]) <= MaxPromptChars

(***************************************************************************)
(* Claims about the resume scorer                                          *)
(***************************************************************************)

\* The token sets the scorer compared.
ResumeTokens == SimpleTokenize(resume_text)

JobTokens == SimpleTokenize(Some(jd_text))

\* s is the integer nearest to n / d, the even one of the two when n / d is
\* half way between them.
IsRounded(s, n, d) ==
    /\ 2 * (n - s * d) <= d
    /\ 2 * (s * d - n) <= d
    /\ (2 * (n - s * d) = d \/ 2 * (s * d - n) = d) => s % 2 = 0

\* C13: when the resume token set R and the job token set J are both
\* non-empty, the scorer returns score = round(100 * |R \cap J| / |J|), an
\* integer of 0..100, and the reasoning "Matched |R \cap J| of |J| JD terms.";
\* the resume "I know Python and React" against the fallback text "python java"
\* with no job record gives (50, "Matched 1 of 2 JD terms.").
C13_OverlapScore ==
    /\ (score_pc = "done" /\ ResumeTokens # {} /\ JobTokens # {}) =>
          /\ score_ret[1] \in 0..100
          /\ IsRounded(score_ret[1], 100 * Cardinality(ResumeTokens \cap JobTokens),
                       Cardinality(JobTokens))
          /\ score_ret[2] = "Matched " \o ToString(Cardinality(ResumeTokens \cap JobTokens))
                              \o " of " \o ToString(Cardinality(JobTokens)) \o " JD terms."
    /\ (/\ score_pc = "done"
        /\ resume_text = Some("I know Python and React")
        /\ jd_obj = None
        /\ jd_fallback_text = Some("python java")) =>
          score_ret = <<50, "Matched 1 of 2 JD terms.">>

\* The scorer returned for the example.
C13_Witness ==
    /\ score_pc = "done"
    /\ resume_text = Some("I know Python and React")
    /\ jd_obj = None
    /\ jd_fallback_text = Some("python java")
    /\ ResumeTokens = {"i", "know", "python", "react"}
    /\ JobTokens = {"python", "java"}
    /\ score_ret = <<50, "Matched 1 of 2 JD terms.">>

\* The scorer returned for one term of eight: 12.5 is rounded to 12.
C13_TieWitness ==
    /\ score_pc = "done"
    /\ Cardinality(JobTokens) = 8
    /\ Cardinality(ResumeTokens \cap JobTokens) = 1
    /\ score_ret = <<12, "Matched 1 of 8 JD terms.">>

\* C14: if the token set of the resume text or the token set of the job text
\* is empty, after lower-casing and stop-word removal, the scorer returns
\* (0, "Insufficient data to compute score").
C14_InsufficientData ==
    (score_pc = "done" /\ (ResumeTokens = {} \/ JobTokens = {})) =>
        score_ret = <<0, "Insufficient data to compute score">>

\* The scorer returned for a resume of stop words only against a job text with
\* terms.
C14_Witness ==
    /\ score_pc = "done"
    /\ resume_text = Some("the and of")
    /\ ResumeTokens = {}
    /\ JobTokens # {}
    /\ score_ret = <<0, "Insufficient data to compute score">>

\* The text the job record gives: its job_title, location, experience_required
\* and skills_required that are set, joined and stripped; empty without a record.
RecordText == IF IsNone(jd_obj) THEN "" ELSE Strip(Join(Parts(jd_obj), " "))

\* C15 (as stated): the job text is chosen by the presence of the job record
\* alone: with a record the job text is built from the record only and
\* fallback_text is never used, so a record with none of the fields set gives an
\* empty job text and the insufficient-data result; fallback_text is used only
\* when the record is absent.
C15_RecordPresenceAlone ==
    score_pc = "done" =>
        IF IsNone(jd_obj)
        THEN jd_text = OrElse(jd_fallback_text, "")
        ELSE /\ jd_text = RecordText
             /\ RecordText = "" => score_ret = InsufficientData

\* C15 (amended): the job text is the record's text when that text is not
\* empty, and fallback_text (or the empty string) whenever it is empty: when the
\* record is absent, and also when a present record gives no text.
C15_FallbackWhenNoRecordText ==
    score_pc = "done" =>
        /\ RecordText # "" => jd_text = RecordText
        /\ RecordText = "" => jd_text = OrElse(jd_fallback_text, "")
        /\ (RecordText = "" /\ ResumeTokens # {}
              /\ SimpleTokenize(jd_fallback_text) # {}) => score_ret # InsufficientData

\* The scorer returned for a record with none of the four fields set and a
\* fallback text: the fallback text was scored.
C15_Witness ==
    /\ score_pc = "done"
    /\ jd_obj = Some(JobDict(None, None, None, None))
    /\ resume_text = Some("I know Python and React")
    /\ jd_fallback_text = Some("python java")
    /\ jd_text = "python java"
    /\ score_ret = <<50, "Matched 1 of 2 JD terms.">>

(***************************************************************************)
(* Claims about the records of the structuring pipeline                    *)
(***************************************************************************)

\* No entry of the list occurs twice.
NoDuplicates(list) == \A i, j \in 1..Len(list) : list[i] = list[j] => i = j

\* clean_and_structure_jd returned a record whose three lists are lists.
ReturnedRecordWithLists ==
    /\ struct_ret.kind = "returned"
    /\ ~IsNone(struct_ret.value)
    /\ ~IsNone(struct_ret.value[1].skills_required)
    /\ ~IsNone(struct_ret.value[1].requirements)
    /\ ~IsNone(struct_ret.value[1].responsibilities)

\* C16: every record the structuring orchestrator returns, on the
\* external-success path as well as on the rule-based path, has skills_required
\* free of duplicates with at most 15 entries, and requirements and
\* responsibilities with at most 10 entries each.
C16_ListsCapped ==
    ReturnedRecordWithLists =>
        /\ NoDuplicates(struct_ret.value[1].skills_required[1])
        /\ Len(struct_ret.value[1].skills_required[1]) <= MaxSkills
        /\ Len(struct_ret.value[1].requirements[1]) <= MaxSectionItems
        /\ Len(struct_ret.value[1].responsibilities[1]) <= MaxSectionItems

\* C17: whenever process_jd returns a record, its job_description and raw_text
\* are both non-empty; input whose raw text is empty or whitespace-only is
\* surfaced to the caller as a failure instead of producing a record.
C17_NonEmptyOrFailure ==
    /\ ~IsNone(structured_jd.jd) =>
          /\ structured_jd.raw_text # ""
          /\ ~Falsy(structured_jd.jd[1].job_description)
    /\ (jd_pc = "done" /\ ParseText(content) = "") =>
          /\ IsNone(structured_jd.jd)
          /\ result.pipeline_status = "error"

\* The pipeline has finished for a non-empty text, each external call having
\* failed or returned a result that conforms to its schema.
FinishedOnExpectedOutcomes ==
    /\ jd_pc = "done"
    /\ content # ""
    /\ ext_struct.kind \in {"raised", "conforming"}

\* C18: for every non-empty text and every combination of outcomes of the
\* external structuring and generation calls, each failing or returning a
\* conforming result, process_job_description completes with pipeline_status
\* "success" and returns a structured record and two prompts; an external
\* failure only switches to the rule-based record or to the template prompt.
C18_SuccessOnAnyOutcome ==
    FinishedOnExpectedOutcomes =>
        /\ result.pipeline_status = "success"
        /\ ~IsNone(result.structured_jd.jd)
        /\ result.structured_jd = structured_jd
        /\ result.linkedin_prompt # "" /\ result.github_prompt # ""
        /\ ext_struct.kind = "raised" =>
              /\ structured_jd.jd = Some(FallbackStructureJD(raw_text).record)
              /\ \A k \in PromptKinds : prompt_from[k] = "template"
        /\ ext_struct.kind = "conforming" => structured_jd.jd = ext_struct.value
        /\ \A k \in PromptKinds :
              gen_outcome[k] = "failed" =>
                  /\ prompt_from[k] = "template"
                  /\ prompts[k] = BothTemplates(structured_jd.jd[1])[k]

\* The pipeline finished with success after the structuring call returned a
\* conforming record, the first generation call failed and the second returned.
C18_Witness ==
    /\ FinishedOnExpectedOutcomes
    /\ ext_struct.kind = "conforming"
    /\ gen_outcome = [k \in PromptKinds |-> IF k = "linkedin" THEN "failed" ELSE "ok"]
    /\ result.pipeline_status = "success"

\* The pipeline finished with success after the structuring call raised.
C18_RaisedWitness ==
    /\ FinishedOnExpectedOutcomes
    /\ ext_struct.kind = "raised"
    /\ content = ExampleText
    /\ struct_ret.path = "fallback"
    /\ result.pipeline_status = "success"

(***************************************************************************)
(* Claims about interruption and retries                                   *)
(***************************************************************************)

\* C19: if the ranking of a batch is interrupted after some profiles have been
\* scored, every profile scored before the interruption still carries the
\* match_score and reasoning it was given, and every profile not yet reached is
\* unchanged from its input state.  rank_i is the profile that was at hand.
C19_InterruptKeepsScores ==
    rank_pc = "interrupted" =>
        /\ \A i \in 1..(rank_i - 1) :
              LET n == raw_profiles[i]
              IN /\ ext_score[n].kind = "ok" =>
                       /\ heap[n].match_score = Some(ext_score[n].match_score)
                       /\ heap[n].reasoning = Some(ext_score[n].reasoning)
                 /\ ext_score[n].kind = "fail" =>
                       /\ heap[n].match_score = Some(C5_PreviousScore[n])
                       /\ heap[n].reasoning = Some(C5_ExpectedReasoning[n])
                 /\ ext_score[n].kind \in {"ok", "fail"}
        /\ \A i \in (rank_i + 1)..Len(raw_profiles) :
              heap[raw_profiles[i]] = ProfilePool[raw_profiles[i]]
        /\ \A n \in ProfileNames \ Range(raw_profiles) : heap[n] = ProfilePool[n]

\* The ranking of [A, B, C] was interrupted at B: A has the score it was given
\* and C is as it was passed.
C19_Witness ==
    /\ rank_pc = "interrupted"
    /\ raw_profiles = <<"A", "B", "C">>
    /\ rank_i = 2
    /\ ext_score["A"].kind = "ok"
    /\ heap["A"].match_score = Some(60)
    /\ heap["A"].reasoning = Some("Strong Python and API experience.")
    /\ heap["C"] = ProfilePool["C"]

\* C20: no external capability call is retried: one invocation of
\* clean_and_structure_jd calls the structuring capability exactly once, and one
\* invocation of rank_profiles on n profiles calls the scoring capability
\* exactly n times, once per profile, whether the calls succeed or fail.
C20_NoRetry ==
    /\ jd_pc \in {"start", "structuring"} => struct_calls = 0
    /\ jd_pc \in {"gen_linkedin", "gen_github", "done"} =>
          /\ struct_ret.kind # "none"
          /\ struct_calls = 1
    /\ rank_pc = "loop" => score_calls = rank_i - 1
    /\ rank_pc = "done" => score_calls = Len(raw_profiles)

\* clean_and_structure_jd has returned the extractor's record after the one
\* structuring call raised.
C20_Witness ==
    /\ jd_pc = "done"
    /\ ext_struct.kind = "raised"
    /\ struct_ret.kind = "returned"
    /\ struct_ret.path = "fallback"
    /\ struct_calls = 1

\* rank_profiles has returned for three profiles, one call failed and two
\* answered: three calls.
C20_RankWitness ==
    /\ rank_pc = "done"
    /\ Len(raw_profiles) = MaxProfiles
    /\ ext_score[raw_profiles[1]].kind = "fail"
    /\ ext_score[raw_profiles[2]].kind = "ok"
    /\ score_calls = Len(raw_profiles)

(***************************************************************************)
(* Claims about the scans of the rule-based extractor                      *)
(***************************************************************************)

\* The extractor has returned a record for raw_text.
Extracted == jd_pc = "extracted" /\ struct_ret.kind = "returned"

\* The lines of raw_text, stripped.
CleanLines == [i \in 1..Len(Split(raw_text, "\n")) |-> Strip(Split(raw_text, "\n")[i])]

\* The lines the section scan looks at: three characters or more.
Scanned(i) == Len(CleanLines[i]) >= 3

\* The lines that are section headers: at most 8 words and a section keyword.
HeaderLines == {i \in 1..Len(CleanLines) : Scanned(i) /\ HeaderSection(CleanLines[i], "none") # "none"}

\* current_section after the header detection of line i: the section of the last
\* header line up to i, none before the first one.
SectionAt(i) ==
    IF \A j \in HeaderLines : j > i THEN "none"
    ELSE HeaderSection(CleanLines[CHOOSE j \in HeaderLines :
                                      j <= i /\ \A k \in HeaderLines : k <= i => k <= j],
                       "none")

\* The lines with a marker and more than 10 characters after it.
BulletLines ==
    {i \in 1..Len(CleanLines) :
        Scanned(i) /\ IsBullet(CleanLines[i]) /\ Len(BulletText(CleanLines[i])) > 10}

\* The texts of the bullet lines of a section, in the order of the lines.
EntriesOf(section) ==
    LET at == {i \in BulletLines : SectionAt(i) = section}
    IN [k \in 1..Cardinality(at) |->
          BulletText(CleanLines[CHOOSE i \in at : Cardinality({j \in at : j < i}) = k - 1])]

\* C22: in the single pass over the lines, a line that begins with a bullet
\* marker or a numbered-list marker and has more than 10 characters after the
\* marker is appended to exactly the list named by current_section, and to no
\* list while current_section is none; requirements and responsibilities each
\* hold the first 10 such entries in insertion order.
C22_BulletsBySection ==
    Extracted =>
        /\ struct_ret.value[1].requirements =
              Some(SubSeq(EntriesOf("requirements"), 1,
                          IF Len(EntriesOf("requirements")) < 10
                          THEN Len(EntriesOf("requirements")) ELSE 10))
        /\ struct_ret.value[1].responsibilities =
              Some(SubSeq(EntriesOf("responsibilities"), 1,
                          IF Len(EntriesOf("responsibilities")) < 10
                          THEN Len(EntriesOf("responsibilities")) ELSE 10))

\* The extractor has returned for the document with a bullet before any header,
\* twelve bullets under Requirements and numbered bullets under Duties.
C22_Witness ==
    /\ Extracted
    /\ raw_text = LongSectionText
    /\ Len(EntriesOf("requirements")) = 12
    /\ Len(struct_ret.value[1].requirements[1]) = 10
    /\ struct_ret.value[1].requirements[1][10] = "Strong knowledge of topic 10"
    /\ struct_ret.value[1].responsibilities =
          Some(<<"Lead the data platform team", "Maintain the nightly jobs">>)

\* The lines of the title scan window that are not empty, are no header to skip
\* and contain a role keyword.
RoleKeywordLines ==
    {i \in 1..Len(CleanLines) :
        /\ i <= TitleScanLines
        /\ CleanLines[i] # ""
        /\ ~ContainsAny(Lower(CleanLines[i]), title_skip)
        /\ ContainsAny(Lower(CleanLines[i]), title_keywords)}

\* C23: a role-keyword line has priority over the heuristic: if any non-header
\* line within the scan window contains a role keyword, job_title is the first
\* such line with its leading label prefix stripped; a short line among the first
\* 3 is taken as the title only when no line of the window contains a role keyword.
C23_KeywordBeforeHeuristic ==
    (Extracted /\ RoleKeywordLines # {}) =>
        struct_ret.value[1].job_title =
            Some(StripPrefixes(
                    CleanLines[CHOOSE i \in RoleKeywordLines : \A j \in RoleKeywordLines : i <= j],
                    title_prefixes))

\* The lines of the company scan window that contain an explicit label.
LabelledCompanyLines ==
    {i \in 1..Len(CleanLines) :
        i <= CompanyScanLines /\ ContainsAny(Lower(CleanLines[i]), company_labels)}

\* C24: when a scanned line contains an explicit label ("company:",
\* "organization:", "employer:", in any letter case), the returned company is the
\* text after the colon of that line and does not keep the label prefix; a
\* suffix line is used only when there is no labelled line.
C24_LabelledCompany ==
    (Extracted /\ LabelledCompanyLines # {}) =>
        /\ \E i \in LabelledCompanyLines :
              struct_ret.value[1].company = Some(Strip(SplitOnce(CleanLines[i], ":")[2]))
        /\ ~IsNone(struct_ret.value[1].company)
        /\ ~\E p \in Range(company_labels) :
              StartsWith(Lower(struct_ret.value[1].company[1]), p)

\* The lines with an explicit location label.
LabelledLocationLines ==
    {i \in 1..Len(CleanLines) : ContainsAny(Lower(CleanLines[i]), location_indicators)}

\* The lines with a gazetteer keyword.
GazetteerLines == {i \in 1..Len(CleanLines) : FirstKeyword(Lower(CleanLines[i])) # 0}

\* The smallest member of a non-empty set of line numbers.
FirstOf(S) == CHOOSE i \in S : \A j \in S : i <= j

\* C25: location extraction is first-match-wins from top to bottom: the location
\* is taken from the first line that contains an explicit location label or a
\* gazetteer keyword, the scan stops at that line and no later line influences
\* the result; so whenever some line contains a label with text after it or a
\* gazetteer keyword, location is not null.
C25_FirstMatchWins ==
    (Extracted /\ LabelledLocationLines \cup GazetteerLines # {}) =>
        /\ struct_ret.value[1].location =
              CleanLocation(ExtractLocation(
                  <<CleanLines[FirstOf(LabelledLocationLines \cup GazetteerLines)]>>).value)
        /\ (\/ GazetteerLines # {}
            \/ \E i \in LabelledLocationLines : Strip(SplitOnce(CleanLines[i], ":")[2]) # "")
              => ~IsNone(struct_ret.value[1].location)

\* The first gazetteer line, when no labelled line comes before it or is it.
KeywordLineFirst ==
    /\ GazetteerLines # {}
    /\ \A i \in LabelledLocationLines : i > FirstOf(GazetteerLines)

\* s is at most n consecutive words of the words ws, joined by spaces.
IsWindowOf(s, ws, n) ==
    \E a \in 1..Len(ws) : \E b \in a..Len(ws) :
        b - a + 1 <= n /\ s = Join(SubSeq(ws, a, b), " ")

\* C26: when the first line matching a gazetteer keyword has more than 10 words,
\* the location is a window of at most 5 consecutive words of that line that
\* contains the matched keyword, for every gazetteer keyword including the
\* multi-word ones; when the line has at most 10 words the location is the whole
\* line.
C26_KeywordWindow ==
    (Extracted /\ KeywordLineFirst) =>
        LET line == CleanLines[FirstOf(GazetteerLines)]
        IN IF Len(SplitWords(line)) > 10
           THEN /\ ~IsNone(struct_ret.value[1].location)
                /\ IsWindowOf(struct_ret.value[1].location[1], SplitWords(line), 5)
                /\ Contains(Lower(struct_ret.value[1].location[1]),
                            location_keywords[FirstKeyword(Lower(line))])
           ELSE struct_ret.value[1].location = CleanLocation(Some(line))

\* The bullet lines that are headers too: at most 8 words and a section keyword.
BulletHeaderLines ==
    {i \in BulletLines :
        /\ Len(SplitWords(CleanLines[i])) <= 8
        /\ \/ ContainsAny(Lower(CleanLines[i]), requirements_keywords)
           \/ ContainsAny(Lower(CleanLines[i]), responsibilities_keywords)}

\* The section a header line names: requirements when it has a requirements
\* keyword, also when it has keywords of both sections.
NamedSection(i) ==
    IF ContainsAny(Lower(CleanLines[i]), requirements_keywords)
    THEN "requirements" ELSE "responsibilities"

\* The list of the returned record of that name.
ReturnedList(section) ==
    IF section = "requirements" THEN struct_ret.value[1].requirements[1]
    ELSE struct_ret.value[1].responsibilities[1]

\* C28: header detection runs on every line before bullet handling: a bulleted
\* line of at most 8 words that contains a section keyword first switches
\* current_section and is then appended to the list of the newly selected
\* section, not to the section that was current before it; a line with keywords
\* of both sections selects requirements.  (A list that has 10 entries may have
\* lost the entry to the cap.)
C28_HeaderBeforeBullet ==
    Extracted =>
        /\ \A i \in BulletHeaderLines :
              Len(ReturnedList(NamedSection(i))) < 10 =>
                  BulletText(CleanLines[i]) \in Range(ReturnedList(NamedSection(i)))
        /\ raw_text = BulletHeaderText =>
              /\ struct_ret.value[1].requirements =
                    Some(<<"Strong SQL knowledge needed", "Role requirements and tasks overview",
                           "Keep documentation current",
                           "The daily duties of this position include a lot of reporting work">>)
              /\ struct_ret.value[1].responsibilities =
                    Some(<<"Daily duties include reporting", "Write the weekly report">>)

\* The extractor has returned for the document whose third line is a bullet with
\* "duties" under Requirements and whose fifth has keywords of both sections.
C28_Witness ==
    /\ Extracted
    /\ raw_text = BulletHeaderText
    /\ {3, 5} \subseteq BulletHeaderLines
    /\ SectionAt(2) = "requirements"
    /\ "Daily duties include reporting" \in Range(struct_ret.value[1].responsibilities[1])
    /\ "Role requirements and tasks overview" \in Range(struct_ret.value[1].requirements[1])

(***************************************************************************)
(* Claims about the template prompts                                       *)
(***************************************************************************)

\* The first n entries of the list that are in the set, in list order.
FirstIn(list, set, n) ==
    LET at == {i \in 1..Len(list) : list[i] \in set}
        m == IF Cardinality(at) < n THEN Cardinality(at) ELSE n
    IN [k \in 1..m |-> list[CHOOSE i \in at : Cardinality({j \in at : j < i}) = k - 1]]

\* The skills of the code template: the first 2 that name a technology, or the
\* first 2 of any kind when none does.
CodeTemplateSkills(skills) ==
    IF \E i \in 1..Len(skills) : IsTechnicalSkill(skills[i])
    THEN FirstIn(skills, {s \in Range(skills) : IsTechnicalSkill(s)}, 2)
    ELSE FirstIn(skills, Range(skills), 2)

\* The template of kind k for the record jd, as the claim describes it.
TemplateOf(k, jd) ==
    IF k = "linkedin"
    THEN Join(<<IF Falsy(jd.job_title) THEN "Software Engineer" ELSE jd.job_title[1],
                "in " \o (IF Falsy(jd.location) THEN "India" ELSE jd.location[1])>>
              \o FirstIn(jd.skills_required[1], Range(jd.skills_required[1]), 3), " ")
    ELSE Join(<<Replace(IF Falsy(jd.job_title) THEN "Developer" ELSE jd.job_title[1],
                        "Engineer", "Developer"),
                "in " \o (IF Falsy(jd.location) THEN "India" ELSE jd.location[1])>>
              \o CodeTemplateSkills(jd.skills_required[1]), " ")

\* C27: when external generation fails, the prompt is the space-joined template
\* [job_title or default] ["in " + location, default "India"] [top skills]: the
\* network prompt has default title "Software Engineer" and the first 3 skills;
\* the code prompt has default title "Developer", "Engineer" replaced by
\* "Developer" in the title, and the first 2 technology-filtered skills, or the
\* first 2 skills of any kind when none passes the filter.
C27_TemplatePrompts ==
    \A k \in PromptKinds :
        gen_outcome[k] = "failed" =>
            /\ prompts[k] = TemplateOf(k, structured_jd.jd[1])
            /\ structured_jd.jd = Some(FullRecord) =>
                  prompts[k] = IF k = "linkedin"
                               THEN "Data Engineer in Pune Communication Python Spark"
                               ELSE "Data Developer in Pune Python Java"
            /\ structured_jd.jd = Some(SoftSkillsRecord) =>
                  prompts[k] = IF k = "linkedin"
                               THEN "Platform Engineer in India Communication Leadership Sql"
                               ELSE "Platform Developer in India Communication Leadership"
            /\ structured_jd.jd = Some(EmptyRecord) =>
                  prompts[k] = IF k = "linkedin" THEN "Software Engineer in India"
                               ELSE "Developer in India"

\* Both generation calls failed for the record whose skills start with one that
\* names no technology.
C27_Witness ==
    /\ jd_pc = "done"
    /\ structured_jd.jd = Some(FullRecord)
    /\ gen_outcome = [k \in PromptKinds |-> "failed"]
    /\ prompts.linkedin = "Data Engineer in Pune Communication Python Spark"
    /\ prompts.github = "Data Developer in Pune Python Java"

(***************************************************************************)
(* Claims about the frame of rank_profiles                                 *)
(***************************************************************************)

\* The profile with its match_score and reasoning put back as they were passed.
WithInputScore(n) ==
    [heap[n] EXCEPT !.match_score = ProfilePool[n].match_score,
                    !.reasoning = ProfilePool[n].reasoning]

\* What holds of the returned list and of the profiles in every state.
C29_PermutationOfInput ==
    /\ rank_pc = "done" =>
          /\ Len(rank_result) = Len(raw_profiles)
          /\ \A n \in Range(raw_profiles) :
                Cardinality({i \in 1..Len(rank_result) : rank_result[i] = n}) = 1
          /\ Range(rank_result) \subseteq Range(raw_profiles)
    /\ \A n \in ProfileNames : WithInputScore(n) = ProfilePool[n]
    /\ \A n \in ProfileNames \ Range(raw_profiles) : heap[n] = ProfilePool[n]

\* C29: rank_profiles returns a permutation of its input: every input profile
\* appears exactly once in the output, none is added or dropped, the order of
\* the caller's input list is left unchanged by every step, and on each profile
\* only the fields match_score and reasoning are written.
C29_FrameOfRanking ==
    /\ [](rank_pc # "off" => C29_PermutationOfInput)
    /\ [][rank_pc # "off" => raw_profiles' = raw_profiles]_vars

\* rank_profiles has returned [C, A, B] for the caller's list [A, B, C], which is
\* still [A, B, C].
C29_Witness ==
    /\ rank_pc = "done"
    /\ raw_profiles = <<"A", "B", "C">>
    /\ rank_result = <<"C", "A", "B">>
    /\ heap["A"].title = "Backend Developer"
    /\ heap["A"].match_score # ProfilePool["A"].match_score

(***************************************************************************)
(* Claims about the job store                                              *)
(***************************************************************************)

\* C21: after delete_job(job_id) has returned True, no candidate with that
\* job_id remains in the candidates collection, also when add_candidate calls
\* for the same job_id, from a sourcing task that is still running, interleave
\* with the deletion.
C21_NoCandidateAfterDelete ==
    del_ret = Some(TRUE) => \A c \in candidates : c.job_id # del_job

\* C30: every status that set_job_status accepts and stores is handled by
\* get_job_results as a failed, completed or in-progress job: no sequence of
\* set_job_status calls puts a job in a state for which get_job_results answers
\* with the "Unknown job status" error.
C30_EveryStatusHandled ==
    /\ http_resp.op = "get_job_results" =>
          http_resp.kind \in {"not_found", "job_failed", "completed", "in_progress"}
    /\ \A j \in JobIds :
          JobExists(j) => ResultsFor(jobs[j]).kind \in {"job_failed", "completed", "in_progress"}

====
